---- MODULE Spec2Model ----
(***************************************************************************)
(* A model of Luau's ConstraintSolver (Analysis/src/ConstraintSolver.cpp): *)
(* the two-mode fixpoint scheduler run(), the blocking index (blocked /    *)
(* blockedConstraints), the reference counts unresolvedConstraints, and    *)
(* the handlers of the constraint kinds Subtype, HasProp, HasIndexer,      *)
(* FunctionCall and PrimitiveType, over a small type arena.                *)
(*                                                                         *)
(* The unifier (Unifier2), the overload resolver and Constraint::          *)
(* getFreeTypes are collaborators whose code is not part of the file; the  *)
(* unifier's verdict and its incomplete subtypes are nondeterministic      *)
(* inputs of a dispatch.                                                   *)
(***************************************************************************)
EXTENDS Integers, Sequences, FiniteSets, TLC

\* ------------------------------------------------------------------ bounds

\* the largest number of constraints the generator hands to the constructor
MaxInit == 3
\* the largest number of pushed constraints after which the unifier still
\* leaves an incomplete subtype behind
MaxPush == 1
\* the seeds randomize() is called with are 0..MaxSeed
MaxSeed == 5
\* saturateArguments is called with at most MaxTypeArgs raw type arguments and
\* MaxPackArgs raw type pack arguments
MaxTypeArgs == 3
MaxPackArgs == 2

\* ------------------------------------------------------------ the type arena

\* the null TypeId / TypePackId
NoNode == ""

\* every constraint of a run has an id in 1..MaxCons: a constraint of the
\* generator pushes at most one constraint itself, apart from what the unifier
\* leaves behind
MaxCons == 2 * MaxInit + MaxPush

\* names of the nodes the arena hands out after construction (arena->addType)
FreshNames == <<"f1", "f2", "f3", "f4", "f5", "f6", "f7", "f8", "f9", "f10", "f11", "f12">>

FixedNodes ==
    {"B1", "B2", "B3", "B4", "D", "F", "T", "TF", "M", "UM", "U", "Fn", "any", "error", "never",
     "number", "unknown",
     "GA", "GB", "GR", "GK", "TB", "TR", "PB1", "PB2", "PI1", "PI2", "PBG", "PR", "PR1", "PR2",
     "PBI", "PI3", "PK1", "PN", "PX", "GM", "TM", "PM", "PM1", "PM2",
     "nil", "string", "numberOpt", "NextFn", "IterFn", "MI", "L1", "L2", "L3", "L4", "L5", "L6",
     "UFn", "UFn2",
     "FT", "FTR", "FTW", "FTRW", "FTI", "B5", "B6", "B7", "B8", "B9", "B10",
     "L7", "L8", "L9", "L10", "L11", "L12", "L13", "L14", "MN", "MF", "B11",
     "PV", "PI4", "XT", "PF", "GF",
     "L15", "L16", "L17", "L18", "L19", "B12", "TFI1", "TFI2"}

Nodes == FixedNodes \cup {FreshNames[k] : k \in 1..Len(FreshNames)}

\* names of the packs the arena hands out after construction (arena->addTypePack)
FreshPacks == <<"q1", "q2", "q3", "q4", "q5", "q6", "q7", "q8", "q9", "q10", "q11", "q12">>

PackNodes ==
    {"RP", "RP2", "RP3", "RP4", "RP5", "errorPack", "neverPack", "anyPack", "NR", "IA", "IR", "LV1", "LV2", "LV3",
     "LV4", "LV5", "LV6", "LV7", "RP6", "LV8", "LV9", "TFP"}
        \cup {FreshPacks[k] : k \in 1..Len(FreshPacks)}

\* a type node: its variant v, the target of a Bound or the table of a
\* Metatable (to), a Free type's table
\* upper bound (ub), the read type (prop) and the write type (writeTy) of a
\* table's one property and the table's indexer (idxK, idxV), a
\* union's members (mem) and a Blocked type's owning constraint (owner, 0: none);
\* a PendingExpansion type names its alias (alias) and keeps its type
\* arguments in mem; a Function type has an argument pack (arg) and a return pack (ret), a Metatable
\* type may have an __iter entry (iter) in its metatable, or a metatable that
\* is not a table (metatable), a Local type has a domain and a block count, a
\* TypeFamilyInstance type keeps its type arguments in mem and has pack
\* arguments; a
\* table has a name and the type parameters it was instantiated with, a table
\* and a metatable have a synthetic name
Node(v) ==
    [v |-> v, to |-> NoNode, ub |-> NoNode, prop |-> NoNode, writeTy |-> NoNode, idxK |-> NoNode, idxV |-> NoNode, mem |-> <<>>, owner |-> 0,
     alias |-> NoNode, arg |-> NoNode, ret |-> NoNode, iter |-> NoNode, metatable |-> NoNode,
     domain |-> NoNode, blockCount |-> 0,
     name |-> NoNode, syntheticName |-> NoNode, instantiatedTypeParams |-> <<>>,
     packArguments |-> <<>>]

\* Property::rw(t), Property::readonly(t) and Property::writeonly(t) as the one
\* property of the table n
rw(n, t) == [n EXCEPT !.prop = t, !.writeTy = t]

readonly(n, t) == [n EXCEPT !.prop = t, !.writeTy = NoNode]

writeonly(n, t) == [n EXCEPT !.prop = NoNode, !.writeTy = t]

\* a TypeFamilyInstanceType over the arguments given
Family(typeArguments, packArguments) ==
    [Node("Family") EXCEPT !.mem = typeArguments, !.packArguments = packArguments]

\* a LocalType: its domain and its block count
Local(domain, blockCount) == [Node("Local") EXCEPT !.domain = domain, !.blockCount = blockCount]

\* a type pack: its variant v, the target of a BoundPack or the type of a
\* Variadic pack (to), the head of a Pack (head)
PackNode(v) == [v |-> v, to |-> NoNode, head |-> <<>>, packArguments |-> <<>>]

\* a TypeFamilyInstanceTypePack over the arguments given
FamilyPack(typeArguments, packArguments) ==
    [PackNode("FamilyPack") EXCEPT !.head = typeArguments, !.packArguments = packArguments]

BoundPackTo(p) == [PackNode("BoundPack") EXCEPT !.to = p]

\* a PendingExpansionType: alias<args>
Pending(alias, args) == [Node("Pending") EXCEPT !.alias = alias, !.mem = args]

\* the arena the constraint generator leaves behind
Arena0 ==
    [n \in Nodes |->
        CASE n \in {"B1", "B2", "B3", "B4", "D", "B5", "B6", "B7", "B8", "B9", "B10", "B11", "B12"}
                -> Node("Blocked")
          \* the family instances add<B12, number> and len<B1, ...RP>
          [] n = "TFI1" -> Family(<<"B12", "number">>, <<>>)
          [] n = "TFI2" -> Family(<<"B1">>, <<"RP">>)
          \* free tables whose property is absent, read-only, write-only and
          \* read-write, and one with a string-keyed indexer
          [] n = "FT" -> Node("FreeTable")
          [] n = "FTR" -> readonly(Node("FreeTable"), "number")
          [] n = "FTW" -> writeonly(Node("FreeTable"), "number")
          [] n = "FTRW" -> rw(Node("FreeTable"), "number")
          [] n = "FTI" -> [Node("FreeTable") EXCEPT !.idxK = "string", !.idxV = "number"]
          [] n = "F" -> Node("Free")
          [] n = "T" -> [rw(Node("Table"), "number") EXCEPT !.idxK = "number", !.idxV = "number"]
          [] n = "TF" -> rw(Node("Table"), "F")
          [] n = "M" -> [Node("Metatable") EXCEPT !.to = "T"]
          [] n = "UM" -> [Node("Union") EXCEPT !.mem = <<"T", "M">>]
          [] n \in {"GA", "GB", "GR", "GK", "GM", "GF"} -> Node("Generic")
          \* a table of another module, and Far<number>
          [] n = "XT" -> rw(Node("Table"), "number")
          [] n = "PF" -> Pending("Far", <<"number">>)
          [] n = "TM" -> [rw(Node("Table"), "PM") EXCEPT !.idxK = "number", !.idxV = "GM"]
          [] n = "PM" -> Pending("Mix", <<"number">>)
          [] n \in {"PM1", "PM2"} -> Pending("Mix", <<"any">>)
          [] n \in {"nil", "string"} -> Node("Primitive")
          [] n = "UFn" -> [Node("Union") EXCEPT !.mem = <<"Fn", "Fn">>]
          [] n = "UFn2" -> [Node("Intersection") EXCEPT !.mem = <<"Fn", "NextFn">>]
          [] n = "numberOpt" -> [Node("Union") EXCEPT !.mem = <<"number", "nil">>]
          [] n = "NextFn" -> [Node("Function") EXCEPT !.ret = "NR"]
          [] n = "IterFn" -> [Node("Function") EXCEPT !.arg = "IA", !.ret = "IR"]
          [] n = "MI" -> [Node("Metatable") EXCEPT !.to = "TF", !.iter = "IterFn"]
          \* a free type with a metatable
          [] n = "MF" -> [Node("Metatable") EXCEPT !.to = "F"]
          \* a table whose metatable is a number
          [] n = "MN" -> [Node("Metatable") EXCEPT !.to = "T", !.metatable = "number"]
          [] n \in {"L1", "L2", "L3", "L4", "L5", "L6", "L7", "L8", "L9", "L10", "L11", "L12", "L13", "L14",
                    "L15", "L16", "L17", "L18", "L19"}
                -> Local("never", 1)
          [] n = "TB" -> rw(Node("Table"), "GB")
          [] n = "TR" -> rw(Node("Table"), "GR")
          [] n \in {"PB1", "PB2"} -> Pending("Box", <<"number">>)
          [] n \in {"PI1", "PI2", "PI3", "PI4"} -> Pending("Id", <<"number">>)
          [] n = "PV" -> Pending("Via", <<>>)
          [] n = "PBG" -> Pending("Box", <<"GB">>)
          [] n = "PR" -> Pending("Rec", <<"TR">>)
          [] n \in {"PR1", "PR2"} -> Pending("Rec", <<"number">>)
          [] n = "PBI" -> Pending("Box", <<"PI3">>)
          [] n = "PK1" -> Pending("Const", <<"number">>)
          [] n = "PN" -> Pending("Unit", <<>>)
          [] n = "PX" -> Pending("Nope", <<>>)
          [] n = "U" -> [Node("Union") EXCEPT !.mem = <<"F", "B1">>]
          [] n = "Fn" -> Node("Function")
          [] n = "any" -> Node("Any")
          [] n = "error" -> Node("Error")
          [] n = "never" -> Node("Never")
          [] n = "number" -> Node("Primitive")
          [] n = "unknown" -> Node("Unknown")
          [] OTHER -> Node("Unalloc")]

Packs0 ==
    [p \in PackNodes |->
        CASE p \in {"RP", "RP2", "RP3", "RP4", "RP5", "RP6"} -> PackNode("BlockedPack")
          [] p = "errorPack" -> PackNode("ErrorPack")
          [] p = "neverPack" -> PackNode("NeverPack")
          [] p = "anyPack" -> [PackNode("Variadic") EXCEPT !.to = "any"]
          [] p = "IA" -> [PackNode("Pack") EXCEPT !.head = <<"MI">>]
          [] p = "NR" -> [PackNode("Pack") EXCEPT !.head = <<"numberOpt", "string">>]
          [] p = "IR" -> [PackNode("Pack") EXCEPT !.head = <<"NextFn", "TF", "nil">>]
          [] p = "LV1" -> [PackNode("Pack") EXCEPT !.head = <<"L1", "L2">>]
          [] p = "LV2" -> [PackNode("Pack") EXCEPT !.head = <<"L3", "L4">>]
          [] p = "LV3" -> [PackNode("Pack") EXCEPT !.head = <<"L5", "L6">>]
          [] p = "LV4" -> [PackNode("Pack") EXCEPT !.head = <<"L7", "L8">>]
          [] p = "LV5" -> [PackNode("Pack") EXCEPT !.head = <<"L9", "L10">>]
          [] p = "LV6" -> [PackNode("Pack") EXCEPT !.head = <<"L11", "L12">>]
          [] p = "LV7" -> [PackNode("Pack") EXCEPT !.head = <<"L13", "L14">>]
          [] p = "LV8" -> [PackNode("Pack") EXCEPT !.head = <<"L15", "L16", "L17">>]
          [] p = "LV9" -> [PackNode("Pack") EXCEPT !.head = <<"L18", "L15">>]
          \* a family instance pack over B12
          [] p = "TFP" -> FamilyPack(<<"B12">>, <<>>)
          [] OTHER -> PackNode("Unalloc")]

\* follow(ty): chase Bound indirections to the representative
RECURSIVE followN(_, _, _)
followN(ty, t, fuel) ==
    IF fuel = 0 \/ ty[t].v # "Bound" THEN t ELSE followN(ty, ty[t].to, fuel - 1)

follow(ty, t) == followN(ty, t, Cardinality(Nodes))

followPack(tp, p) == IF tp[p].v = "BoundPack" THEN tp[p].to ELSE p

\* ------------------------------------------------------------- constraints

\* a constraint payload; unused operands are NoNode.
\*   Subtype:       a = subType, b = superType
\*   PackSubtype:   sp = subPack, rp = superPack
\*   Name:          a = namedType, name, synthetic, args = typeParameters
\*   HasProp:       a = subjectType, r = resultType, context
\*   SetProp:       a = subjectType, b = propType, r = resultType; the path is
\*                  the one property name of the model
\*   HasIndexer:    a = subjectType, b = indexType, r = resultType
\*   FunctionCall:  a = fn, args = argsPack (flattened head), tail = the tail
\*                  of argsPack, rp = result pack, disc = discriminantTypes
\*   PrimitiveType: a = freeType, b = primitiveType
\*   TypeAliasExpansion: a = target
\*   Iterable:      args = the head of the iterator pack, rp = variables
\*   Unpack:        rp = resultPack, sp = sourcePack
\*   Unpack1:       r = resultType, a = sourceType
\*   Reduce:        a = ty
\*   ReducePack:    rp = tp
\* deps are the constraint's dependencies (ids of other constraints)
Payload(kind, a, b, r) ==
    [kind |-> kind, a |-> a, b |-> b, r |-> r, args |-> <<>>, disc |-> <<>>, rp |-> NoNode,
     sp |-> NoNode, tail |-> NoNode, deps |-> {}, context |-> "RValue",
     name |-> NoNode, synthetic |-> FALSE]

\* the constraints the generator may emit, in creation order; `after` names the
\* pool entries a constraint depends on
Pool ==
    << [c |-> Payload("Subtype", "B1", "T", NoNode), after |-> {}],
       [c |-> Payload("Subtype", "T", "B1", NoNode), after |-> {}],
       [c |-> Payload("Subtype", "B2", "T", NoNode), after |-> {}],
       [c |-> Payload("Subtype", "D", "T", NoNode), after |-> {}],
       [c |-> Payload("Subtype", "F", "T", NoNode), after |-> {}],
       [c |-> Payload("Subtype", "T", "F", NoNode), after |-> {1, 5}],
       [c |-> Payload("HasProp", "T", NoNode, "B1"), after |-> {}],
       [c |-> Payload("HasProp", "U", NoNode, "B3"), after |-> {}],
       [c |-> Payload("HasIndexer", "T", "number", "B2"), after |-> {}],
       [c |-> [Payload("FunctionCall", "Fn", NoNode, NoNode) EXCEPT !.args = <<"B1">>, !.disc = <<"D">>, !.rp = "RP"],
        after |-> {}],
       [c |-> Payload("PrimitiveType", "F", "number", NoNode), after |-> {}],
       [c |-> Payload("HasIndexer", "F", "number", "B4"), after |-> {}],
       [c |-> Payload("Subtype", "B4", "T", NoNode), after |-> {}],
       [c |-> Payload("Subtype", "TF", "T", NoNode), after |-> {}],
       [c |-> Payload("Subtype", "T", "TF", NoNode), after |-> {}],
       [c |-> Payload("HasIndexer", "UM", "number", "B4"), after |-> {}],
       [c |-> Payload("HasIndexer", "M", "number", "B2"), after |-> {}],
       [c |-> Payload("TypeAliasExpansion", "PR", NoNode, NoNode), after |-> {}],
       [c |-> Payload("TypeAliasExpansion", "PB1", NoNode, NoNode), after |-> {}],
       [c |-> Payload("TypeAliasExpansion", "PB2", NoNode, NoNode), after |-> {}],
       [c |-> Payload("TypeAliasExpansion", "PI1", NoNode, NoNode), after |-> {}],
       [c |-> Payload("TypeAliasExpansion", "PI2", NoNode, NoNode), after |-> {}],
       [c |-> Payload("TypeAliasExpansion", "PBG", NoNode, NoNode), after |-> {}],
       [c |-> Payload("TypeAliasExpansion", "PR1", NoNode, NoNode), after |-> {}],
       [c |-> Payload("TypeAliasExpansion", "PR2", NoNode, NoNode), after |-> {}],
       [c |-> Payload("TypeAliasExpansion", "PBI", NoNode, NoNode), after |-> {}],
       [c |-> Payload("TypeAliasExpansion", "PK1", NoNode, NoNode), after |-> {}],
       [c |-> Payload("TypeAliasExpansion", "PN", NoNode, NoNode), after |-> {}],
       [c |-> Payload("TypeAliasExpansion", "PX", NoNode, NoNode), after |-> {}],
       \* type U = Mix<any> is declared before Mix, and Mix<any> is used after it
       [c |-> Payload("TypeAliasExpansion", "PM1", NoNode, NoNode), after |-> {}],
       [c |-> Payload("TypeAliasExpansion", "PM", NoNode, NoNode), after |-> {}],
       [c |-> Payload("TypeAliasExpansion", "PM2", NoNode, NoNode), after |-> {}],
       \* for k, v in MI do: MI's metatable has __iter: (MI) -> (NextFn, TF, nil)
       [c |-> [Payload("Iterable", NoNode, NoNode, NoNode) EXCEPT !.args = <<"MI">>, !.rp = "LV1"],
        after |-> {}],
       \* for k, v in NextFn, TF, nil do, with NextFn: (TF) -> (number?, string)
       [c |-> [Payload("Iterable", NoNode, NoNode, NoNode) EXCEPT !.args = <<"NextFn", "TF", "nil">>,
                                                                  !.rp = "LV2"],
        after |-> {}],
       \* for k, v in (a value of type any) do
       [c |-> [Payload("Iterable", NoNode, NoNode, NoNode) EXCEPT !.args = <<"any">>, !.rp = "LV3"],
        after |-> {}],
       \* calls of an error-typed and a never-typed callee, of Fn | Fn and of
       \* Fn & NextFn
       [c |-> [Payload("FunctionCall", "error", NoNode, NoNode) EXCEPT !.args = <<"B1">>, !.rp = "RP2"],
        after |-> {}],
       [c |-> [Payload("FunctionCall", "never", NoNode, NoNode) EXCEPT !.args = <<"B1">>, !.rp = "RP3"],
        after |-> {}],
       [c |-> [Payload("FunctionCall", "UFn", NoNode, NoNode) EXCEPT !.args = <<"number">>, !.rp = "RP4"],
        after |-> {}],
       [c |-> [Payload("FunctionCall", "UFn2", NoNode, NoNode) EXCEPT !.args = <<"number">>, !.rp = "RP5"],
        after |-> {}],
       \* t.prop = (a number) for a free table t whose property is absent,
       \* read-only, write-only, read-write, covered by a string-keyed indexer
       [c |-> Payload("SetProp", "FT", "number", "B5"), after |-> {}],
       [c |-> Payload("SetProp", "FTR", "number", "B6"), after |-> {}],
       [c |-> Payload("SetProp", "FTW", "number", "B7"), after |-> {}],
       [c |-> Payload("SetProp", "FTRW", "number", "B8"), after |-> {}],
       [c |-> Payload("SetProp", "FTI", "number", "B9"), after |-> {}],
       \* and a read of the write-only property
       [c |-> Payload("HasProp", "FTW", NoNode, "B10"), after |-> {}],
       \* for k, v in NextFn, TF, F do, with F a free type; for k, v in M do, M
       \* having a metatable without __iter; for k, v in FT do, FT a free table
       [c |-> [Payload("Iterable", NoNode, NoNode, NoNode) EXCEPT !.args = <<"NextFn", "TF", "F">>,
                                                                  !.rp = "LV4"],
        after |-> {}],
       [c |-> [Payload("Iterable", NoNode, NoNode, NoNode) EXCEPT !.args = <<"M">>, !.rp = "LV5"],
        after |-> {}],
       [c |-> [Payload("Iterable", NoNode, NoNode, NoNode) EXCEPT !.args = <<"FT">>, !.rp = "LV6"],
        after |-> {}],
       \* for k, v in MN do, and the call MN(a number), MN's metatable being a number
       [c |-> [Payload("Iterable", NoNode, NoNode, NoNode) EXCEPT !.args = <<"MN">>, !.rp = "LV7"],
        after |-> {}],
       [c |-> [Payload("FunctionCall", "MN", NoNode, NoNode) EXCEPT !.args = <<"number">>, !.rp = "RP6"],
        after |-> {}],
       \* t.prop = (a number) for t = setmetatable(F, ...), F a free type
       [c |-> Payload("SetProp", "MF", "number", "B11"), after |-> {}],
       \* the result pack of a call against a resolved pack, both ways round,
       \* and two resolved packs
       [c |-> [Payload("PackSubtype", NoNode, NoNode, NoNode) EXCEPT !.sp = "RP4", !.rp = "NR"],
        after |-> {}],
       [c |-> [Payload("PackSubtype", NoNode, NoNode, NoNode) EXCEPT !.sp = "NR", !.rp = "RP4"],
        after |-> {}],
       [c |-> [Payload("PackSubtype", NoNode, NoNode, NoNode) EXCEPT !.sp = "NR", !.rp = "IR"],
        after |-> {}],
       \* type Via = Id<number>: a value of type Via used as a table, the use
       \* of Via, and the Id<number> of its definition
       [c |-> Payload("Subtype", "PV", "T", NoNode), after |-> {}],
       [c |-> Payload("TypeAliasExpansion", "PV", NoNode, NoNode), after |-> {}],
       [c |-> Payload("TypeAliasExpansion", "PI4", NoNode, NoNode), after |-> {}],
       \* calls of a free callee that a later constraint still refers to, of Fn
       \* with two blocked arguments and a blocked tail, and of a blocked callee
       [c |-> [Payload("FunctionCall", "F", NoNode, NoNode) EXCEPT !.args = <<"number">>, !.rp = "RP"],
        after |-> {}],
       [c |-> [Payload("FunctionCall", "Fn", NoNode, NoNode) EXCEPT !.args = <<"B1", "B2">>,
                                                                  !.tail = "RP3", !.rp = "RP2"],
        after |-> {}],
       [c |-> [Payload("FunctionCall", "B3", NoNode, NoNode) EXCEPT !.args = <<"number">>, !.rp = "RP4"],
        after |-> {}],
       [c |-> Payload("Subtype", "F", "T", NoNode), after |-> {}],
       \* type N = XT, N = T, N = number, N = F; the synthetic name of M; and
       \* Far<number>
       [c |-> [Payload("Name", "XT", NoNode, NoNode) EXCEPT !.name = "N"], after |-> {}],
       [c |-> [Payload("Name", "T", NoNode, NoNode) EXCEPT !.name = "N", !.args = <<"number">>],
        after |-> {}],
       [c |-> [Payload("Name", "number", NoNode, NoNode) EXCEPT !.name = "N"], after |-> {}],
       [c |-> [Payload("Name", "F", NoNode, NoNode) EXCEPT !.name = "N"], after |-> {}],
       [c |-> [Payload("Name", "M", NoNode, NoNode) EXCEPT !.name = "N", !.synthetic = TRUE],
        after |-> {}],
       [c |-> Payload("TypeAliasExpansion", "PF", NoNode, NoNode), after |-> {}],
       \* local a, b, c = (a call of NextFn); a = (a string); for k, a in T do;
       \* b = (a value that a call returns)
       [c |-> [Payload("Unpack", NoNode, NoNode, NoNode) EXCEPT !.rp = "LV8", !.sp = "NR"],
        after |-> {}],
       [c |-> Payload("Unpack1", "string", NoNode, "L15"), after |-> {}],
       [c |-> [Payload("Iterable", NoNode, NoNode, NoNode) EXCEPT !.args = <<"T">>, !.rp = "LV9"],
        after |-> {}],
       [c |-> Payload("Unpack1", "B1", NoNode, "L16"), after |-> {}],
       \* the reductions of add<B12, number>, of len<B1, ...RP> and of the
       \* family instance pack, and the read of T's property that binds B12
       [c |-> Payload("Reduce", "TFI1", NoNode, NoNode), after |-> {}],
       [c |-> Payload("Reduce", "TFI2", NoNode, NoNode), after |-> {}],
       [c |-> [Payload("ReducePack", NoNode, NoNode, NoNode) EXCEPT !.rp = "TFP"], after |-> {}],
       [c |-> Payload("HasProp", "T", NoNode, "B12"), after |-> {}] >>

\* the programs the generator is given: the pool entries each may emit
Programs == {1..11, {5, 11, 12, 13, 14, 15}, {3, 13, 16, 17}, 18..29, 30..32, 33..35, {1} \cup 36..39, 40..45 \cup {51}, 46..50,
             {38, 52, 53, 54}, {55, 56, 57},
             58..61, 62..67, 68..71, 72..75}

\* ------------------------------------------------------ the blocking index

\* BlockedConstraintId: a TypeId, a TypePackId or a Constraint*
TyKey(t) == [k |-> "ty", n |-> t, c |-> 0]
TpKey(p) == [k |-> "tp", n |-> p, c |-> 0]
CKey(id) == [k |-> "c", n |-> NoNode, c |-> id]

\* blocked[key]: the constraints waiting on key (the empty set: no entry)
Waiting(blocked, key) == {p[2] : p \in {q \in blocked : q[1] = key}}

\* the solver's mutable state, as the handlers see it:
\*   ty, tp     the arena (types, type packs)
\*   blocked    the pairs <<key, c>> with c in blocked[key]
\*   bc         blockedConstraints
\*   cons       every constraint ever created (constraints + solverConstraints)
\*   unsolved   unsolvedConstraints
\*   nfresh     the number of nodes allocated since construction
\*   npush      the number of constraints pushed since construction
\*   ice        an internal compiler error was raised
\*   errs       `errors`: the diagnostics reported, each with its location,
\*              its kind and its module name
\*   instantiatedAliases  the alias cache, as pairs <<signature, type>>
\*   upperBoundContributors  the pairs <<expanded, addition>> recorded by unify
\*   uninhabitedTypeFamilies  the family instances (types and packs) interned

\*   refs       unresolvedConstraints
\*   asserted   the LUAU_ASSERTs reached with their condition false
\*   selected   the callees handed to selectOverload since the dispatch began
\*   released   the keys unblock_ was called with since the dispatch began,
\*              each with the constraints that waited on it
\* A raised internal error unwinds run(): nothing after it takes effect.

\* Sequencing: the value of Then at v, with v computed once.  The handlers are
\* sequences of updates of the solver state; With(update, Then) is "do the
\* update, then continue with the state it leaves".
With(v, Then(_)) == CHOOSE y \in {Then(x) : x \in {v}} : TRUE

\* iceReporter.ice(...)
ice(s) == [s EXCEPT !.ice = TRUE]

\* a faulty block_ that counts every call, whether or not the edge is new
blockCountsEveryCall(s, key, c) ==
    IF s.ice THEN s ELSE [s EXCEPT !.blocked = @ \cup {<<key, c>>}, !.bc[c] = @ + 1]

\* block_(target, constraint): a new edge increments the constraint's counter
block_(s, key, c) ==
    IF s.ice \/ <<key, c>> \in s.blocked
    THEN s
    ELSE [s EXCEPT !.blocked = @ \cup {<<key, c>>}, !.bc[c] = @ + 1]

\* block(NotNull<const Constraint> target, constraint)
blockC(s, target, c) == block_(s, CKey(target), c)

\* block(TypeId target, constraint): the key is follow(target)
blockTy(s, t, c) == block_(s, TyKey(follow(s.ty, t)), c)

\* block(TypePackId target, constraint): the key is the pack as given
blockTp(s, p, c) == block_(s, TpKey(p), c)

\* a faulty loop that stops at the first blocked type
blockFirstTy(s, ts, c) == IF ts = {} THEN s ELSE blockTy(s, CHOOSE x \in ts : TRUE, c)

\* block(t, constraint) for every t of a set of types
RECURSIVE blockAllTy(_, _, _)
blockAllTy(s, ts, c) ==
    IF ts = {} THEN s
    ELSE LET t == CHOOSE x \in ts : TRUE
             rest(s1) == blockAllTy(s1, ts \ {t}, c)
         IN With(blockTy(s, t, c), rest)

\* a faulty unblock_ that erases the entry and leaves the counters alone
unblockKeepsCounters(s, key) ==
    IF s.ice THEN s ELSE
    [s EXCEPT !.blocked = {q \in @ : q[1] # key},
              !.released = @ \cup {<<key, Waiting(s.blocked, key)>>}]

\* unblock_(progressed): decrement every waiting constraint, erase the entry
unblock_(s, key) ==
    LET w == Waiting(s.blocked, key)
    IN IF s.ice THEN s ELSE
       [s EXCEPT !.blocked = {q \in @ : q[1] # key},
                 !.bc = [c \in DOMAIN @ |-> IF c \in w THEN @[c] - 1 ELSE @[c]],
                 !.asserted = IF \E c \in w : s.bc[c] <= 0 THEN @ \cup {"count > 0"} ELSE @,
                 !.released = @ \cup {<<key, w>>}]

\* unblock(NotNull<const Constraint> progressed)
unblockC(s, id) == unblock_(s, CKey(id))

\* unblock(TypeId ty, Location): the key and every node of its Bound chain, an
\* internal error on a chain that revisits a node
RECURSIVE unblockChain(_, _, _)
unblockChain(s, t, seen) ==
    IF t \in seen
    THEN ice(s)
    ELSE LET next(s1) ==
                 IF s1.ty[t].v = "Bound"
                 THEN unblockChain(s1, s1.ty[t].to, seen \cup {t})
                 ELSE s1
         IN With(unblock_(s, TyKey(t)), next)

\* a faulty unblock that releases the key alone
unblockKeyOnly(s, t) == unblock_(s, TyKey(t))

unblockTy(s, t) == unblockChain(s, t, {})

\* unblock(TypePackId progressed, Location)
unblockTp(s, p) == unblock_(s, TpKey(p))

\* inheritBlocks(source, addition): whatever waits on source also waits on addition
RECURSIVE inheritFrom(_, _, _)
inheritFrom(s, ws, addition) ==
    IF ws = {} THEN s
    ELSE LET w == CHOOSE x \in ws : TRUE
             rest(s1) == inheritFrom(s1, ws \ {w}, addition)
         IN With(blockC(s, addition, w), rest)

\* a faulty inheritBlocks that moves the waiting constraints to addition
inheritBlocksMoves(s, source, addition) ==
    LET moved(s1) == [s1 EXCEPT !.blocked = {q \in @ : q[1] # CKey(source) \/ source = addition}]
    IN With(inheritFrom(s, Waiting(s.blocked, CKey(source)), addition), moved)

inheritBlocks(s, source, addition) == inheritFrom(s, Waiting(s.blocked, CKey(source)), addition)

\* isBlocked(TypeId)
isBlockedTy(s, t) ==
    LET n == s.ty[follow(s.ty, t)]
    IN IF n.v = "Local" THEN n.blockCount > 0
       ELSE IF n.v = "Family" THEN follow(s.ty, t) \notin s.uninhabitedTypeFamilies
       ELSE n.v \in {"Blocked", "Pending"}

\* isBlocked(TypePackId)
isBlockedTp(s, p) ==
    IF s.tp[followPack(s.tp, p)].v = "FamilyPack"
    THEN followPack(s.tp, p) \notin s.uninhabitedTypeFamilies
    ELSE s.tp[followPack(s.tp, p)].v = "BlockedPack"

\* a faulty isBlocked that never sees a blocked constraint
neverBlockedC(s, c) == FALSE

\* isBlocked(NotNull<const Constraint>)
isBlockedC(s, c) == s.bc[c] > 0

\* hasUnresolvedConstraints(ty), over unresolvedConstraints
hasUnresolvedConstraints(refs, t) == refs[t] > 0

\* a faulty pushConstraint that puts the new constraint at the front of
\* unsolvedConstraints
pushConstraintFirst(s, payload) ==
    IF s.ice THEN s ELSE
    [s EXCEPT !.cons = Append(@, payload),
              !.unsolved = <<Len(s.cons) + 1>> \o @,
              !.npush = @ + 1]

\* pushConstraint(scope, location, cv): the new constraint's id is Len(cons) + 1
pushConstraint(s, payload) ==
    IF s.ice THEN s ELSE
    [s EXCEPT !.cons = Append(@, payload),
              !.unsolved = Append(@, Len(s.cons) + 1),
              !.npush = @ + 1]

\* arena->addType / freshType: the node allocated next
NextFresh(s) == FreshNames[s.nfresh + 1]

addType(s, node) ==
    IF s.ice THEN s ELSE [s EXCEPT !.ty[NextFresh(s)] = node, !.nfresh = @ + 1]

\* asMutable(t)->ty.emplace<V>(...): the node t becomes `node`
emplace(s, t, node) == IF s.ice THEN s ELSE [s EXCEPT !.ty[t] = node]

emplacePack(s, p, node) == IF s.ice THEN s ELSE [s EXCEPT !.tp[p] = node]

BoundTo(t) == [Node("Bound") EXCEPT !.to = t]

\* LUAU_ASSERT(cond)
luauAssert(s, cond, what) == IF s.ice \/ cond THEN s ELSE [s EXCEPT !.asserted = @ \cup {what}]

\* currentModuleName
ModuleName == "module"

\* Location{} and the location of a constraint
DefaultLocation == "Location{}"

ConstraintLocation == "constraint->location"

\* TypeError{location, data}: the module name is empty
TypeError(location, data) == [location |-> location, data |-> data, moduleName |-> NoNode]

\* the entry reportError(data, constraint->location) leaves in errors
Reported(data) == [TypeError(ConstraintLocation, data) EXCEPT !.moduleName = ModuleName]

\* reportError(data, location)
reportErrorData(s, data) == IF s.ice THEN s ELSE [s EXCEPT !.errs = Append(@, Reported(data))]

\* reportError(OccursCheckFailed{}, constraint->location)
reportError(s) == reportErrorData(s, "OccursCheckFailed")

\* ---------------------------------------------------------- the unify bridge

\* What a dispatch cannot decide from the solver's own state: the unifier's
\* verdict (ok) and whether it leaves an incomplete subtype behind (push).
\* What the family reducer reports (red): whether it has reduced the root,
\* whether it has found the root uninhabited, and the types and the packs it
\* waits for.
NoReduction == [reduced |-> FALSE, uninhabited |-> FALSE, blockedTypes |-> {}, blockedPacks |-> {}]

Choices == [ok : BOOLEAN, push : BOOLEAN, red : {NoReduction}]

IsTable(n) == n.v \in {"Table", "Unsealed", "FreeTable"}

\* Unifier2::unify(subTy, superTy) on the arena: a free subtype's upper bound
\* narrows to the table it is unified with
u2unify(s, sub, sup, ok) ==
    LET fs == follow(s.ty, sub)
        fp == follow(s.ty, sup)
    IN IF ~s.ice /\ ok /\ s.ty[fs].v = "Free" /\ s.ty[fs].ub = NoNode /\ IsTable(s.ty[fp])
       THEN [s EXCEPT !.ty[fs].ub = fp]
       ELSE s

\* u2.expandedFreeTypes after Unifier2::unify(subTy, superTy): a free subtype
\* without an upper bound is expanded by the table it is unified with
expandedFreeTypes(s, sub, sup) ==
    LET fs == follow(s.ty, sub)
        fp == follow(s.ty, sup)
    IN IF s.ty[fs].v = "Free" /\ s.ty[fs].ub = NoNode /\ IsTable(s.ty[fp])
       THEN {<<fs, fp>>}
       ELSE {}

\* a faulty unify that unblocks its operands whatever the verdict
unifyAlwaysUnblocks(s, c, sub, sup, ch) ==
    LET inherit(sp) == inheritBlocks(sp, c, Len(sp.cons))
        incomplete(s1) ==
            IF ch.push /\ s1.npush < MaxPush
            THEN With(pushConstraint(s1, Payload("Subtype", sub, sup, NoNode)), inherit)
            ELSE s1
        unblockSuper(s3) == unblockTy(s3, sup)
        failed(s3) == [s |-> reportError(s3), ok |-> FALSE]
        verdict(s2) ==
            IF ch.ok
            THEN [s |-> With(unblockTy(s2, sub), unblockSuper), ok |-> TRUE]
            ELSE With(With(unblockTy(s2, sub), unblockSuper), failed)
        unified(s1) == With(incomplete(s1), verdict)
    IN With(u2unify(s, sub, sup, ch.ok), unified)

\* a faulty unify whose pushed constraints inherit nothing
unifyWithoutInherit(s, c, sub, sup, ch) ==
    LET incomplete(s1) ==
            IF ch.push /\ s1.npush < MaxPush
            THEN pushConstraint(s1, Payload("Subtype", sub, sup, NoNode))
            ELSE s1
        unblockSuper(s3) == unblockTy(s3, sup)
        verdict(s2) ==
            IF ch.ok
            THEN [s |-> With(unblockTy(s2, sub), unblockSuper), ok |-> TRUE]
            ELSE [s |-> reportError(s2), ok |-> FALSE]
        unified(s1) == With(incomplete(s1), verdict)
    IN With(u2unify(s, sub, sup, ch.ok), unified)

\* ConstraintSolver::unify(constraint, subTy, superTy)
unify(s, c, sub, sup, ch) ==
    LET \* the new constraint inherits the blocks of c
        inherit(sp) == inheritBlocks(sp, c, Len(sp.cons))
        \* for (const auto& [subTy, superTy] : u2.incompleteSubtypes)
        incomplete(s1) ==
            IF ch.push /\ s1.npush < MaxPush
            THEN With(pushConstraint(s1, Payload("Subtype", sub, sup, NoNode)), inherit)
            ELSE s1
        unblockSuper(s3) == unblockTy(s3, sup)
        \* upperBoundContributors[expanded].push_back(...) for each addition
        contributors(s2) ==
            IF s2.ice THEN s2
            ELSE [s2 EXCEPT !.upperBoundContributors = @ \cup expandedFreeTypes(s, sub, sup)]
        unblockSub(s2) == unblockTy(s2, sub)
        verdict(s2) ==
            IF ch.ok
            THEN [s |-> With(With(contributors(s2), unblockSub), unblockSuper), ok |-> TRUE]
            ELSE [s |-> reportError(s2), ok |-> FALSE]
        unified(s1) == With(incomplete(s1), verdict)
    IN With(u2unify(s, sub, sup, ch.ok), unified)

\* canMutate(TypeId ty, constraint)
canMutate(s, t, c) == s.ty[t].v = "Blocked" => s.ty[t].owner = c

\* bindBlockedType(blockedTy, resultTy, rootTy, constraint)
bindBlockedType(s, blockedTy, resultTy, rootTy, c) ==
    LET res == follow(s.ty, resultTy)
        toFresh(sf) == emplace(sf, blockedTy, BoundTo(NextFresh(s)))
        bind(sa) ==
            IF blockedTy = res
            THEN IF sa.ty[follow(sa.ty, rootTy)].v \in {"Free", "FreeTable"}
                 THEN With(addType(sa, Node("Free")), toFresh)
                 ELSE ice(sa)
            ELSE emplace(sa, blockedTy, BoundTo(res))
    IN With(luauAssert(s, s.ty[blockedTy].v = "Blocked" /\ canMutate(s, blockedTy, c),
                       "bindBlockedType"),
            bind)

\* ---------------------------------------------------------- property lookup

\* maybeString(ty)
maybeString(s, t) == s.ty[follow(s.ty, t)].v \in {"String", "Any"}

SetToSeq(S) == CHOOSE q \in [1..Cardinality(S) -> S] : \A x \in S : \E k \in 1..Cardinality(S) : q[k] = x

\* lookupTableProp(constraint, subjectType, propName, context, ..., seen) for
\* the one property name of the model, outside a conditional:
\* the blockers, the result (NoNode: none), and the solver state and visited
\* set it leaves
RECURSIVE lookupTableProp(_, _, _, _, _, _)
RECURSIVE lookupMembers(_, _, _, _, _, _, _, _, _)
lookupTableProp(s, c, subjectType, context, seen, ch) ==
    IF subjectType \in seen
    THEN [s |-> s, blocked |-> {}, result |-> NoNode, seen |-> seen]
    ELSE
    LET seen1 == seen \cup {subjectType}
        subject == follow(s.ty, subjectType)
        n == s.ty[subject]
        none == [s |-> s, blocked |-> {}, result |-> NoNode, seen |-> seen1]
        \* a free type without a table upper bound gets a fresh free table with
        \* the property as its upper bound
        \* (NextFresh(s) is the table, FreshNames[s.nfresh + 2] the property type)
        unified(s3) == unify(s3, c, subject, NextFresh(s), ch).s
        withProp(s2) ==
            [none EXCEPT !.s = With([s2 EXCEPT !.ty[NextFresh(s)] =
                                                   IF context = "RValue"
                                                   THEN readonly(@, FreshNames[s.nfresh + 2])
                                                   ELSE rw(@, FreshNames[s.nfresh + 2])],
                                    unified),
                         !.result = FreshNames[s.nfresh + 2]]
        withUpperBound(s1) == With(addType(s1, Node("Free")), withProp)
    IN IF isBlockedTy(s, subject)
       THEN [none EXCEPT !.blocked = {subject}]
       ELSE IF n.v \in {"Any", "Never"}
       THEN [none EXCEPT !.result = subject]
       ELSE IF IsTable(n)
       THEN IF context = "RValue" /\ n.prop # NoNode
            THEN [none EXCEPT !.result = n.prop]
            ELSE IF context = "LValue" /\ n.writeTy # NoNode
            THEN [none EXCEPT !.result = n.writeTy]
            ELSE IF n.idxK # NoNode /\ maybeString(s, n.idxK)
            THEN [none EXCEPT !.result = n.idxV]
            ELSE IF n.v = "FreeTable"
            THEN IF context = "RValue"
                 THEN [none EXCEPT !.s = [addType(s, Node("Free")) EXCEPT !.ty[subject].prop = NextFresh(s)],
                                   !.result = NextFresh(s)]
                 ELSE IF n.prop # NoNode /\ n.writeTy = NoNode
                 THEN [none EXCEPT !.s = [addType(s, Node("Free")) EXCEPT !.ty[subject].writeTy = n.prop],
                                   !.result = n.prop]
                 ELSE [none EXCEPT !.s = [addType(s, Node("Free")) EXCEPT !.ty[subject] = rw(@, NextFresh(s))],
                                   !.result = NextFresh(s)]
            ELSE none
       ELSE IF n.v = "Free"
       THEN IF n.ub # NoNode /\ (IsTable(s.ty[follow(s.ty, n.ub)]) \/ s.ty[follow(s.ty, n.ub)].v = "Primitive")
            THEN lookupTableProp(s, c, follow(s.ty, n.ub), context, seen1, ch)
            ELSE With(addType(s, Node("FreeTable")), withUpperBound)
       ELSE IF n.v = "Union"
       THEN lookupMembers(s, c, n.mem, 1, context, seen1, ch, {}, {})
       ELSE none

\* the loop of lookupTableProp over a union's members, from member k on
lookupMembers(s, c, mem, k, context, seen, ch, blocked, options) ==
    IF k > Len(mem)
    THEN IF blocked # {}
         THEN [s |-> s, blocked |-> blocked, result |-> NoNode, seen |-> seen]
         ELSE IF options = {}
         THEN [s |-> s, blocked |-> {}, result |-> NoNode, seen |-> seen]
         ELSE IF Cardinality(options) = 1
         THEN [s |-> s, blocked |-> {}, result |-> CHOOSE o \in options : TRUE, seen |-> seen]
         ELSE [s |-> addType(s, [Node(IF context = "LValue" THEN "Intersection" ELSE "Union")
                                     EXCEPT !.mem = SetToSeq(options)]),
               blocked |-> {}, result |-> NextFresh(s), seen |-> seen]
    ELSE LET next(l) ==
                 lookupMembers(l.s, c, mem, k + 1, context, l.seen, ch, blocked \cup l.blocked,
                               IF l.result # NoNode THEN options \cup {l.result} ELSE options)
         IN With(lookupTableProp(s, c, mem[k], context, seen, ch), next)

\* ------------------------------------------------------------------ handlers
\* Each handler yields the solver state it leaves and what it returns;
\* tryDispatch also tells whether it reached a handler.

Ret(s, ok) == [s |-> s, ok |-> ok]

\* a faulty subtype handler that binds a blocked subtype itself
subtypeBindsOperand(s, id, force, ch) ==
    IF isBlockedTy(s, s.cons[id].a)
    THEN Ret(emplace(s, follow(s.ty, s.cons[id].a), BoundTo(s.cons[id].b)), TRUE)
    ELSE Ret(s, TRUE)

\* a faulty handler that returns the verdict of unify
subtypeReturnsVerdict(s, id, force, ch) ==
    LET c == s.cons[id]
        verdict(u) == Ret(u.s, u.ok)
    IN IF isBlockedTy(s, c.a)
       THEN Ret(blockTy(s, c.a, id), FALSE)
       ELSE IF isBlockedTy(s, c.b)
       THEN Ret(blockTy(s, c.b, id), FALSE)
       ELSE With(unify(s, id, c.a, c.b, ch), verdict)

\* tryDispatch(const SubtypeConstraint&, constraint, force)
dispatchSubtype(s, id, force, ch) ==
    LET c == s.cons[id]
    IN IF isBlockedTy(s, c.a)
       THEN Ret(blockTy(s, c.a, id), FALSE)
       ELSE IF isBlockedTy(s, c.b)
       THEN Ret(blockTy(s, c.b, id), FALSE)
       ELSE Ret(unify(s, id, c.a, c.b, ch).s, TRUE)

\* tryDispatch(const HasPropConstraint&, constraint)
dispatchHasProp(s, id, ch) ==
    LET c == s.cons[id]
        subjectType == follow(s.ty, c.a)
        resultType == follow(s.ty, c.r)
        unblockResult(s2) == unblockTy(s2, resultType)
        \* what follows the call of lookupTableProp
        found(l) ==
            IF l.blocked # {}
            THEN Ret(blockAllTy(l.s, l.blocked, id), FALSE)
            ELSE Ret(With(bindBlockedType(l.s, resultType,
                                          IF l.result = NoNode THEN "any" ELSE l.result,
                                          c.a, id),
                          unblockResult), TRUE)
        body(s0) ==
            IF isBlockedTy(s0, subjectType)
            THEN Ret(blockTy(s0, subjectType, id), FALSE)
            ELSE With(lookupTableProp(s0, id, subjectType, c.context, {}, ch), found)
    IN With(luauAssert(s, s.ty[resultType].v = "Blocked" /\ canMutate(s, resultType, id),
                       "resultType"),
            body)

\* updateTheTableType(builtinTypes, arena, ty, path, replaceTy) with a path of
\* one segment: an unsealed table without the property gets it
updateTheTableType(s, t, replaceTy) ==
    LET f == follow(s.ty, t)
        n == s.ty[f]
    IN IF n.v = "Unsealed" /\ n.prop = NoNode /\ n.writeTy = NoNode
       THEN emplace(s, f, rw(n, replaceTy))
       ELSE s

\* tryDispatch(const SetPropConstraint&, constraint), with a path of one segment
dispatchSetProp(s, id, ch) ==
    LET c == s.cons[id]
        subjectType == follow(s.ty, c.a)
        propType == follow(s.ty, c.b)
        unblockResult(s2) == unblockTy(s2, c.r)
        \* bind(c.resultType, b) with subjectType being root, then
        \* unblock(c.resultType), then return true
        bound(sb, b, root) == Ret(With(bindBlockedType(sb, c.r, b, root, id), unblockResult), TRUE)
        \* no existing property type
        absent(sa) ==
            LET st == IF sa.ty[subjectType].v = "Metatable"
                      THEN follow(sa.ty, sa.ty[subjectType].to)
                      ELSE subjectType
                updated(su) == bound(su, subjectType, st)
            IN IF sa.ty[st].v = "Free"
               THEN Ret(sa, FALSE)
               ELSE IF sa.ty[st].v = "FreeTable"
               THEN bound(emplace(sa, st, rw(sa.ty[st], propType)), st, st)
               ELSE IF sa.ty[st].v = "Unsealed"
               THEN With(updateTheTableType(sa, st, propType), updated)
               ELSE bound(sa, subjectType, st)
        \* what follows the call of lookupTableProp
        found(l) ==
            LET back(u) == bound(unify(u.s, id, l.result, propType, ch).s, c.a, subjectType)
            IN IF l.blocked # {}
               THEN Ret(blockAllTy(l.s, l.blocked, id), FALSE)
               ELSE IF l.result # NoNode
               THEN With(unify(l.s, id, propType, l.result, ch), back)
               ELSE absent(l.s)
    IN IF isBlockedTy(s, subjectType)
       THEN Ret(blockTy(s, subjectType, id), FALSE)
       ELSE With(lookupTableProp(s, id, subjectType, "LValue", {}, ch), found)

\* the distinct elements of q, in the order of their first occurrence
RECURSIVE dedup(_)
dedup(q) ==
    IF q = <<>> THEN q
    ELSE LET front == dedup(SubSeq(q, 1, Len(q) - 1))
         IN IF \E k \in 1..Len(front) : front[k] = q[Len(q)] THEN front ELSE Append(front, q[Len(q)])

\* tryDispatchHasIndexer(recursionDepth, constraint, subjectType, indexType,
\* resultType, seen) on a free type, a table, a metatable or a union: the solver
\* it leaves, what it returns, and the set seen as it leaves it
\* a faulty upper bound: a sealed table without an indexer
sealedUpperBound(indexType, resultType) == Node("Table")

\* TableType{{}, TableIndexer{indexType, resultType}, TypeLevel{}, TableState::Unsealed}
upperBoundTable(indexType, resultType) ==
    [Node("Unsealed") EXCEPT !.idxK = indexType, !.idxV = resultType]

RECURSIVE tryDispatchHasIndexer(_, _, _, _, _, _, _)
RECURSIVE hasIndexerParts(_, _, _, _, _, _, _, _)
tryDispatchHasIndexer(s, id, subjectIn, indexIn, resultType, seenIn, ch) ==
    LET subjectType == follow(s.ty, subjectIn)
        indexType == follow(s.ty, indexIn)
        seen == seenIn \cup {subjectType}
        n == s.ty[subjectType]
        Done(sd) == [s |-> sd, ok |-> TRUE, seen |-> seen]
        \* a free subject: the result becomes free, the subject is unified with
        \* a fresh unsealed table that has the indexer
        withUpperBound(s2) == Done(unify(s2, id, subjectType, NextFresh(s), ch).s)
        freeSubject(s1) ==
            With(addType(s1, upperBoundTable(indexType, resultType)), withUpperBound)
        \* a table with an indexer: the result is bound to the indexer's value type
        indexed(u) == Done(bindBlockedType(u.s, resultType, n.idxV, subjectType, id))
        \* a union: the result is made of the results of the parts
        combined(l) ==
            [s |-> IF l.results = {}
                   THEN emplace(l.s, resultType, BoundTo("error"))
                   ELSE IF Cardinality(l.results) = 1
                   THEN emplace(l.s, resultType, BoundTo(CHOOSE r \in l.results : TRUE))
                   ELSE emplace(l.s, resultType, [Node("Union") EXCEPT !.mem = SetToSeq(l.results)]),
             ok |-> TRUE, seen |-> l.seen]
        body(s0) ==
            IF n.v = "Free"
            THEN With(emplace(s0, resultType, Node("Free")), freeSubject)
            ELSE IF IsTable(n) /\ n.idxK # NoNode
            THEN With(unify(s0, id, indexType, n.idxK, ch), indexed)
            ELSE IF n.v = "Unsealed"
            THEN Done([emplace(s0, resultType, Node("Free"))
                          EXCEPT !.ty[subjectType].idxK = indexType, !.ty[subjectType].idxV = resultType])
            ELSE IF n.v = "Metatable"
            THEN tryDispatchHasIndexer(s0, id, n.to, indexType, resultType, seen, ch)
            ELSE IF n.v = "Union"
            THEN With(hasIndexerParts(s0, id, dedup([k \in 1..Len(n.mem) |-> follow(s0.ty, n.mem[k])]),
                                      1, indexType, seen, {}, ch),
                      combined)
            ELSE Done(bindBlockedType(s0, resultType, "error", subjectType, id))
    IN IF subjectType \in seenIn
       THEN [s |-> s, ok |-> FALSE, seen |-> seenIn]
       ELSE With(luauAssert(s, s.ty[resultType].v = "Blocked" /\ canMutate(s, resultType, id),
                            "resultType"),
                 body)

\* the loop of tryDispatchHasIndexer over the parts of a union, from part k on:
\* each part gets a new blocked type, owned by the constraint, for its result
hasIndexerParts(s, id, parts, k, indexType, seen, results, ch) ==
    IF k > Len(parts)
    THEN [s |-> s, seen |-> seen, results |-> results]
    ELSE LET r == NextFresh(s)
             next(d) ==
                 hasIndexerParts(d.s, id, parts, k + 1, indexType, d.seen,
                                 IF d.ok /\ d.s.ty[follow(d.s.ty, r)].v # "Error"
                                 THEN results \cup {follow(d.s.ty, r)}
                                 ELSE results,
                                 ch)
             part(s1) ==
                 With(tryDispatchHasIndexer(s1, id, parts[k], indexType, r, seen, ch), next)
         IN With(addType(s, [Node("Blocked") EXCEPT !.owner = id]), part)

\* tryDispatch(const HasIndexerConstraint&, constraint)
dispatchHasIndexer(s, id, ch) ==
    LET c == s.cons[id]
        subjectType == follow(s.ty, c.a)
        indexType == follow(s.ty, c.b)
    IN IF isBlockedTy(s, subjectType)
       THEN Ret(blockTy(s, subjectType, id), FALSE)
       ELSE IF isBlockedTy(s, indexType)
       THEN Ret(blockTy(s, indexType, id), FALSE)
       ELSE LET returned(d) == Ret(d.s, d.ok)
            IN With(tryDispatchHasIndexer(s, id, subjectType, indexType, c.r, {}, ch), returned)

\* tryDispatch(const PrimitiveTypeConstraint&, constraint), without an expected
\* type and with no singleton upper bound
dispatchPrimitiveType(s, id) ==
    LET c == s.cons[id]
    IN IF s.ty[follow(s.ty, c.a)].v # "Free"
       THEN Ret(s, TRUE)
       ELSE IF s.refs[c.a] > 1
       THEN Ret(blockTy(s, c.a, id), FALSE)
       ELSE Ret(emplace(s, c.a, BoundTo(c.b)), TRUE)

\* ---------------------------------------------------- type alias expansion

\* a type function: its generic type parameters and type pack parameters,
\* the default of each (NoNode: none) and its body
TypeFunWith(typeParams, typeDefaults, typePackParams, packDefaults, type) ==
    [typeParams |-> typeParams, typeDefaults |-> typeDefaults,
     typePackParams |-> typePackParams, packDefaults |-> packDefaults, type |-> type]

\* a type function without type pack parameters and without defaults
TypeFun(typeParams, type) ==
    TypeFunWith(typeParams, [k \in 1..Len(typeParams) |-> NoNode], <<>>, <<>>, type)

\* the aliases in scope (scope->lookupType):
\*   type Id<A> = A              type Box<A> = {prop: A}
\*   type Rec<A> = Rec<{A}>      type Const<A> = T          type Unit = number
\*   type Mix<A> = {prop: Mix<number>, [number]: A}
\*   type Via = Id<number>       type Far<A> = XT, XT a table of another module
\* none has a type pack parameter or a default
TypeFuns ==
    [a \in {"Id", "Box", "Rec", "Const", "Mix", "Unit", "Via", "Far"} |->
        CASE a = "Id" -> TypeFun(<<"GA">>, "GA")
          [] a = "Box" -> TypeFun(<<"GB">>, "TB")
          [] a = "Rec" -> TypeFun(<<"GR">>, "PR")
          [] a = "Const" -> TypeFun(<<"GK">>, "T")
          [] a = "Mix" -> TypeFun(<<"GM">>, "TM")
          [] a = "Via" -> TypeFun(<<>>, "PI4")
          [] a = "Far" -> TypeFun(<<"GF">>, "XT")
          [] OTHER -> TypeFun(<<>>, "number")]

\* builtinTypes: the persistent singletons
Persistent == {"any", "error", "never", "number", "unknown"}

\* the types whose owningArena is not the solver's arena
Foreign == {"XT"}

\* the nodes a visitor goes to from node t; the arguments of a pending
\* expansion only when the visitor's visit() returned true for it
childrenOf(tys, t, intoPending) ==
    LET n == tys[t]
    IN (CASE n.v \in {"Bound", "Metatable"} -> {n.to}
          [] IsTable(n) -> {n.prop, n.writeTy, n.idxK, n.idxV}
          [] n.v = "Union" -> {n.mem[k] : k \in 1..Len(n.mem)}
          [] n.v = "Free" -> {n.ub}
          [] n.v = "Pending" /\ intoPending -> {n.mem[k] : k \in 1..Len(n.mem)}
          [] OTHER -> {}) \ {NoNode}

\* TypeOnceVisitor::traverse(t): the nodes visited
RECURSIVE visited(_, _, _, _)
visited(tys, todo, seen, intoPending) ==
    IF todo = {} THEN seen
    ELSE LET t == CHOOSE x \in todo : TRUE
         IN visited(tys, (todo \cup childrenOf(tys, t, intoPending)) \ (seen \cup {t}),
                    seen \cup {t}, intoPending)

\* occursCheck(needle, haystack): the needle is the haystack or a member of
\* the union it is
RECURSIVE occursCheckN(_, _, _, _)
occursCheckN(tys, needle, haystack, fuel) ==
    LET h == follow(tys, haystack)
    IN \/ needle = h
       \/ /\ fuel > 0 /\ tys[h].v = "Union"
          /\ \E k \in 1..Len(tys[h].mem) : occursCheckN(tys, needle, tys[h].mem[k], fuel - 1)

occursCheck(tys, needle, haystack) == occursCheckN(tys, needle, haystack, Cardinality(Nodes))

\* a type pack argument: a pack the caller gave, or one that
\* arena->addTypePack(head) has just allocated
givenPack(tp) == [alloc |-> FALSE, tp |-> tp, head |-> <<>>]

addedTypePack(head) == [alloc |-> TRUE, tp |-> NoNode, head |-> head]

\* the loop over rawPackArguments from index k on: a pack of one type fills a
\* missing type slot as long as no pack argument has been taken
RECURSIVE decomposePacks(_, _, _, _)
decomposePacks(fn, acc, rawPackArguments, k) ==
    IF k > Len(rawPackArguments) THEN acc
    ELSE LET tp == rawPackArguments[k]
             pk == Packs0[tp]
         IN IF /\ Len(acc.typeArguments) < Len(fn.typeParams)
               /\ pk.v = "Pack" /\ Len(pk.head) = 1
               /\ acc.packArguments = <<>>
            THEN decomposePacks(fn, [acc EXCEPT !.typeArguments = Append(@, pk.head[1])],
                                rawPackArguments, k + 1)
            ELSE IF Len(acc.packArguments) < Len(fn.typePackParams)
            THEN decomposePacks(fn, [acc EXCEPT !.packArguments = Append(@, givenPack(tp))],
                                rawPackArguments, k + 1)
            ELSE decomposePacks(fn, acc, rawPackArguments, k + 1)

\* the loop over the missing type slots: each default is instantiated with the
\* arguments before it, and the loop stops at the first slot without a default
RECURSIVE typeDefaults(_, _)
typeDefaults(fn, types) ==
    IF Len(types) >= Len(fn.typeParams) \/ fn.typeDefaults[Len(types) + 1] = NoNode
    THEN types
    ELSE LET defaultTy == fn.typeDefaults[Len(types) + 1]
             earlier == {j \in 1..Len(types) : fn.typeParams[j] = defaultTy}
             instantiatedDefault ==
                 IF earlier # {} THEN types[CHOOSE j \in earlier : TRUE] ELSE defaultTy
         IN typeDefaults(fn, Append(types, instantiatedDefault))

\* the same loop over the missing type pack slots
RECURSIVE packDefaults(_, _)
packDefaults(fn, packs) ==
    IF Len(packs) >= Len(fn.typePackParams) \/ fn.packDefaults[Len(packs) + 1] = NoNode
    THEN packs
    ELSE LET defaultTp == fn.packDefaults[Len(packs) + 1]
             earlier == {j \in 1..Len(packs) : fn.typePackParams[j] = defaultTp}
             instantiatedDefault ==
                 IF earlier # {} THEN packs[CHOOSE j \in earlier : TRUE] ELSE givenPack(defaultTp)
         IN packDefaults(fn, Append(packs, instantiatedDefault))

\* a faulty filler loop that pushes nothing
fillNothing(arguments, required, filler) == arguments

\* for (i = arguments.size(); i < required; ++i) arguments.push_back(filler)
fillMissing(arguments, required, filler) ==
    [k \in 1..(IF Len(arguments) > required THEN Len(arguments) ELSE required) |->
        IF k <= Len(arguments) THEN arguments[k] ELSE filler]

\* saturateArguments(arena, builtinTypes, fn, rawTypeArguments,
\* rawPackArguments): the saturated arguments, the assertions that failed, and
\* how many slots of each kind were filled when the defaults had been applied
saturateArguments(fn, rawTypeArguments, rawPackArguments) ==
    LET typesRequired == Len(fn.typeParams)
        packsRequired == Len(fn.typePackParams)
        taken == IF Len(rawTypeArguments) < typesRequired THEN Len(rawTypeArguments)
                 ELSE typesRequired
        extraTypes == SubSeq(rawTypeArguments, taken + 1, Len(rawTypeArguments))
        collected == IF extraTypes # <<>> /\ fn.typePackParams # <<>>
                     THEN <<addedTypePack(extraTypes)>>
                     ELSE <<>>
        \* the three assertions
        checked(r) ==
            [r EXCEPT !.asserted =
                (IF r.typesProvided <= typesRequired THEN {} ELSE {"typesProvided <= typesRequired"})
                \cup (IF Len(r.typeArguments) = typesRequired THEN {}
                      ELSE {"saturatedTypeArguments.size() == fn.typeParams.size()"})
                \cup (IF Len(r.packArguments) = packsRequired THEN {}
                      ELSE {"saturatedPackArguments.size() == fn.typePackParams.size()"})]
        \* the empty pack for a single missing pack, and the error fillers
        filled(d) ==
            [typeArguments |-> fillMissing(d.types, typesRequired, "error"),
             packArguments |->
                 fillMissing(IF extraTypes = <<>> /\ Len(d.packs) + 1 = packsRequired
                             THEN Append(d.packs, addedTypePack(<<>>))
                             ELSE d.packs,
                             packsRequired, givenPack("errorPack")),
             extraTypes |-> extraTypes,
             typesProvided |-> d.typesProvided,
             typesFilled |-> Len(d.types), packsFilled |-> Len(d.packs),
             asserted |-> {}]
        \* the defaults
        defaulted(provided) ==
            LET typesProvided == Len(provided.typeArguments)
                packsProvided == Len(provided.packArguments)
                needsDefaults == \/ typesProvided < typesRequired /\ packsProvided = 0
                                 \/ typesProvided = typesRequired /\ packsProvided < packsRequired
            IN [types |-> IF needsDefaults THEN typeDefaults(fn, provided.typeArguments)
                          ELSE provided.typeArguments,
                packs |-> IF needsDefaults THEN packDefaults(fn, provided.packArguments)
                          ELSE provided.packArguments,
                typesProvided |-> typesProvided]
    IN With(With(With(decomposePacks(fn, [typeArguments |-> SubSeq(rawTypeArguments, 1, taken),
                                          packArguments |-> collected],
                                     rawPackArguments, 1),
                      defaulted), filled), checked)

InstantiationSignature(fn, arguments) == [fn |-> fn, arguments |-> arguments]

\* InfiniteTypeFinder{this, signature, scope}.traverse(t); foundInfiniteType
foundInfiniteType(tys, signature, t) ==
    \E p \in visited(tys, {t}, {}, TRUE) :
        /\ tys[p].v = "Pending"
        /\ tys[p].alias \in DOMAIN TypeFuns
        /\ follow(tys, TypeFuns[tys[p].alias].type) = follow(tys, signature.fn.type)
        /\ signature.arguments # saturateArguments(TypeFuns[tys[p].alias], tys[p].mem, <<>>).typeArguments

\* ApplyTypeFunction::substitute(t) with typeArguments = params :> args: a
\* parameter is replaced by its argument, a table that mentions a parameter
\* is copied with the argument in its place, a type that mentions no
\* parameter is returned as it is
substitute(s, t, params, args) ==
    LET f == follow(s.ty, t)
        n == s.ty[f]
        isParam(g) == \E k \in 1..Len(params) : params[k] = g
        arg(g) == IF isParam(g) THEN args[CHOOSE k \in 1..Len(params) : params[k] = g] ELSE g
    IN IF isParam(f)
       THEN [s |-> s, result |-> arg(f)]
       ELSE IF IsTable(n) /\ \E g \in {n.prop, n.writeTy, n.idxK, n.idxV} : isParam(g)
       THEN [s |-> addType(s, [n EXCEPT !.prop = arg(n.prop), !.writeTy = arg(n.writeTy),
                                        !.idxK = arg(n.idxK),
                                        !.idxV = arg(n.idxV)]),
             result |-> NextFresh(s)]
       ELSE [s |-> s, result |-> f]

\* InstantiationQueuer::visit(ty, PendingExpansionType) for each pending
\* expansion in ps
RECURSIVE queueExpansions(_, _)
queueExpansions(s, ps) ==
    IF ps = {} THEN s
    ELSE LET p == CHOOSE x \in ps : TRUE
             rest(s1) == queueExpansions(s1, ps \ {p})
         IN With(pushConstraint(s, Payload("TypeAliasExpansion", p, NoNode, NoNode)), rest)

\* InstantiationQueuer{scope, location, this}.traverse(target)
queuerTraverse(s, target) ==
    queueExpansions(s, {p \in visited(s.ty, {target}, {}, FALSE) : s.ty[p].v = "Pending"})

\* a faulty bindResult that binds the target and unblocks nothing
bindResultKeepsBlocks(s, target, result) ==
    LET bound(s1) == emplace(s1, target, BoundTo(result))
    IN With(luauAssert(s, s.ty[target].v = "Pending", "get<PendingExpansionType>(c.target)"), bound)

\* the bindResult lambda of the handler
bindResult(s, target, result) ==
    LET unblocked(s2) == unblockTy(s2, target)
        bound(s1) == With(emplace(s1, target, BoundTo(result)), unblocked)
    IN With(luauAssert(s, s.ty[target].v = "Pending", "get<PendingExpansionType>(c.target)"), bound)

\* instantiatedAliases[signature] = target
recordInstantiation(s, signature, target) ==
    IF s.ice THEN s
    ELSE [s EXCEPT !.instantiatedAliases =
              {e \in @ : e[1] # signature} \cup {<<signature, target>>}]

\* a faulty expansion of an alias applied to its own generics, which records
\* the alias's type as an instantiation
identityRecorded(s, target, signature) ==
    recordInstantiation(bindResult(s, target, signature.fn.type), signature, signature.fn.type)

\* the expansion of an alias applied to its own generics (sameTypes and
\* samePacks hold): the target is bound to the alias's type
identityExpansion(s, target, signature) == bindResult(s, target, signature.fn.type)

\* a faulty scan that never finds an infinite type
neverInfinite(tys, signature) == FALSE

\* the InfiniteTypeFinder scan of the handler, over the alias's type
recursiveWithOtherParameters(tys, signature) ==
    foundInfiniteType(tys, signature, signature.fn.type)

\* the handler from applyTypeFunction.substitute(tf->type) on
instantiateAlias(s, target0, signature) ==
    LET tf == signature.fn
        record(sb) == recordInstantiation(sb.s, signature, sb.target)
        \* bindResult(target)
        bind(sc) == [s |-> bindResult(sc.s, target0, sc.target), target |-> sc.target]
        \* instantiated = applyTypeFunction.clone(target)
        cloned(s2, target) ==
            IF IsTable(s2.ty[target]) /\ follow(s2.ty, tf.type) = target
            THEN [s |-> addType(s2, s2.ty[target]), target |-> NextFresh(s2)]
            ELSE [s |-> s2, target |-> target]
        \* ttv->instantiatedTypeParams = typeArguments
        stamped(sc) ==
            IF IsTable(sc.s.ty[sc.target])
            THEN [s |-> emplace(sc.s, sc.target,
                                [sc.s.ty[sc.target] EXCEPT !.instantiatedTypeParams = signature.arguments]),
                  target |-> sc.target]
            ELSE sc
        queued(sub) ==
            LET target == follow(sub.s.ty, sub.result)
                s2 == queuerTraverse(sub.s, target)
            IN IF target \in Persistent \/ target \in Foreign
               THEN bindResult(s2, target0, target)
               ELSE With(With(With(cloned(s2, target), stamped), bind), record)
    IN With(substitute(s, tf.type, tf.typeParams, signature.arguments), queued)

\* what the Name handler does to a named type that is neither blocked nor
\* persistent nor of another arena
named(s, id, target) ==
    LET c == s.cons[id]
        n == s.ty[target]
    IN IF IsTable(n)
       THEN IF c.synthetic /\ n.name = NoNode
            THEN Ret(emplace(s, target, [n EXCEPT !.syntheticName = c.name]), TRUE)
            ELSE Ret(emplace(s, target, [n EXCEPT !.name = c.name,
                                                   !.instantiatedTypeParams = c.args]), TRUE)
       ELSE IF n.v = "Metatable"
       THEN Ret(emplace(s, target, [n EXCEPT !.syntheticName = c.name]), TRUE)
       ELSE IF n.v \in {"Intersection", "Union"}
       THEN Ret(s, TRUE)
       ELSE Ret(blockTy(s, c.a, id), FALSE)

\* a faulty Name handler that does not look at the owner of the named type
nameAnything(s, id) ==
    LET c == s.cons[id]
    IN IF isBlockedTy(s, c.a)
       THEN Ret(blockTy(s, c.a, id), FALSE)
       ELSE named(s, id, follow(s.ty, c.a))

\* tryDispatch(const NameConstraint&, constraint)
dispatchName(s, id) ==
    LET c == s.cons[id]
        target == follow(s.ty, c.a)
    IN IF isBlockedTy(s, c.a)
       THEN Ret(blockTy(s, c.a, id), FALSE)
       ELSE IF target \in Persistent \/ target \in Foreign
       THEN Ret(s, TRUE)
       ELSE named(s, id, target)

\* tryDispatch(const TypeAliasExpansionConstraint&, constraint)
dispatchTypeAliasExpansion(s, id) ==
    LET c == s.cons[id]
        petv == s.ty[follow(s.ty, c.a)]
        bindError(s1) == bindResult(s1, c.a, "error")
    IN IF petv.v # "Pending"
       THEN Ret(unblockTy(s, c.a), TRUE)
       ELSE IF petv.alias \notin DOMAIN TypeFuns
       THEN Ret(With(reportErrorData(s, "UnknownSymbol"), bindError), TRUE)
       ELSE LET tf == TypeFuns[petv.alias]
                recursive(s1) == reportErrorData(s1, "Recursive type being used with different parameters")
                \* the handler from the comparison of the saturated arguments
                \* with the parameters on
                saturated(signature) ==
                    LET cache == {e \in s.instantiatedAliases : e[1] = signature}
                    IN IF signature.arguments = tf.typeParams
                       THEN Ret(identityExpansion(s, c.a, signature), TRUE)
                       ELSE IF cache # {}
                       THEN Ret(bindResult(s, c.a, (CHOOSE e \in cache : TRUE)[2]), TRUE)
                       ELSE IF recursiveWithOtherParameters(s.ty, signature)
                       THEN Ret(With(bindError(s), recursive), TRUE)
                       ELSE Ret(instantiateAlias(s, c.a, signature), TRUE)
            IN IF tf.typeParams = <<>>
               THEN Ret(bindResult(s, c.a, tf.type), TRUE)
               ELSE IF occursCheck(s.ty, c.a, tf.type)
               THEN Ret(With(reportErrorData(s, "OccursCheckFailed"), bindError), TRUE)
               ELSE With(InstantiationSignature(tf, saturateArguments(tf, petv.mem, <<>>).typeArguments),
                         saturated)

\* ------------------------------------------------------- Iterable and Unpack

\* arena->addTypePack(...): the pack allocated next
NextFreshPack(s) == FreshPacks[s.nfresh + 1]

addTypePack(s, pack) ==
    IF s.ice THEN s ELSE [s EXCEPT !.tp[NextFreshPack(s)] = pack, !.nfresh = @ + 1]

\* extendTypePack(arena, builtinTypes, p, n).head: the first n types of p, as
\* far as p has them
packHead(tp, p, n) ==
    LET pk == tp[followPack(tp, p)]
    IN IF pk.v = "Variadic" THEN [k \in 1..n |-> pk.to]
       ELSE IF pk.v = "Pack" THEN SubSeq(pk.head, 1, IF n < Len(pk.head) THEN n ELSE Len(pk.head))
       ELSE <<>>

\* unify(constraint, subPack, superPack): the verdict is the unifier's, and
\* both packs are unblocked when it is positive
unifyPacks(s, c, sub, sup, ch) ==
    LET unblockSuper(s1) == unblockTp(s1, sup)
    IN IF ch.ok
       THEN [s |-> With(unblockTp(s, sub), unblockSuper), ok |-> TRUE]
       ELSE [s |-> reportErrorData(s, "OccursCheckFailed"), ok |-> FALSE]

\* tryDispatch(const PackSubtypeConstraint&, constraint, force)
dispatchPackSubtype(s, id, force, ch) ==
    LET c == s.cons[id]
    IN IF isBlockedTp(s, c.sp)
       THEN Ret(blockTp(s, c.sp, id), FALSE)
       ELSE IF isBlockedTp(s, c.rp)
       THEN Ret(blockTp(s, c.rp, id), FALSE)
       ELSE Ret(unifyPacks(s, id, c.sp, c.rp, ch).s, TRUE)

\* stripNil(builtinTypes, arena, t): t without the nil members of the union
\* it is
stripNil(s, t) ==
    LET f == follow(s.ty, t)
        n == s.ty[f]
        rest == SelectSeq(n.mem, LAMBDA m : follow(s.ty, m) # "nil")
    IN IF n.v # "Union" \/ rest = n.mem THEN [s |-> s, result |-> f]
       ELSE IF Len(rest) = 0 THEN [s |-> s, result |-> "never"]
       ELSE IF Len(rest) = 1 THEN [s |-> s, result |-> rest[1]]
       ELSE [s |-> addType(s, [n EXCEPT !.mem = rest]), result |-> NextFresh(s)]

\* simplifyUnion(builtinTypes, arena, domain, t).result
simplifyUnion(s, domain, t) ==
    IF domain = "never" \/ domain = t THEN [s |-> s, result |-> t]
    ELSE IF t = "never" THEN [s |-> s, result |-> domain]
    ELSE [s |-> addType(s, [Node("Union") EXCEPT !.mem = <<domain, t>>]), result |-> NextFresh(s)]

\* a faulty count-down that never binds the local
countWithoutBind(s, t) ==
    emplace(s, t, [s.ty[t] EXCEPT !.blockCount = @ - 1])

\* --lt->blockCount; if (0 == lt->blockCount) emplace<BoundType>(lt->domain)
countDown(s, t) ==
    IF s.ty[t].blockCount = 1
    THEN emplace(s, t, BoundTo(s.ty[t].domain))
    ELSE emplace(s, t, [s.ty[t] EXCEPT !.blockCount = @ - 1])

\* LUAU_ASSERT(lt->blockCount > 0); --lt->blockCount; ...
releaseLocal(s, t) ==
    LET counted(s1) == countDown(s1, t)
    IN With(luauAssert(s, s.ty[t].blockCount > 0, "lt->blockCount > 0"), counted)

\* the tryExpand lambda of tryDispatchUnpack1, for an lvalue
tryExpand(s, t, srcTy) ==
    IF s.ice \/ s.ty[t].v # "Local" THEN s
    ELSE LET release(s2) == releaseLocal(s2, t)
             widened(u) == With(emplace(u.s, t, [u.s.ty[t] EXCEPT !.domain = u.result]), release)
         IN With(simplifyUnion(s, s.ty[t].domain, srcTy), widened)

RECURSIVE tryExpandAll(_, _, _, _)
tryExpandAll(s, mem, k, srcTy) ==
    IF k > Len(mem) THEN s
    ELSE LET rest(s1) == tryExpandAll(s1, mem, k + 1, srcTy)
         IN With(tryExpand(s, mem[k], srcTy), rest)

\* tryDispatchUnpack1(constraint, resultTy, srcTy, resultIsLValue = true)
tryDispatchUnpack1(s, id, resultTyIn, srcTy, ch) ==
    LET resultTy == follow(s.ty, resultTyIn)
        n == s.ty[resultTy]
        unblockResult(s2) == unblockTy(s2, resultTy)
        toFresh(sf) == emplace(sf, resultTy, BoundTo(NextFresh(s)))
        assign(s1) ==
            IF n.v = "Union" THEN tryExpandAll(s1, n.mem, 1, srcTy)
            ELSE IF n.v = "Local" THEN tryExpand(s1, resultTy, srcTy)
            ELSE IF n.v = "Blocked"
            THEN IF follow(s1.ty, srcTy) = resultTy
                 THEN With(addType(s1, Node("Free")), toFresh)
                 ELSE bindBlockedType(s1, resultTy, srcTy, srcTy, id)
            ELSE unify(s1, id, srcTy, resultTy, ch).s
    IN With(With(luauAssert(s, canMutate(s, resultTy, id), "canMutate(resultTy, constraint)"),
                 assign),
            unblockResult)

\* the second loop of the Unpack handler: a result without a source is nil
leftOver(s, t) ==
    LET resultTy == follow(s.ty, t)
        n == s.ty[resultTy]
        release(s2) == countDown(s2, resultTy)
        asserted(s2) == With(luauAssert(s2, 0 <= n.blockCount, "0 <= lt->blockCount"), release)
        widened(u) == With(emplace(u.s, resultTy, [u.s.ty[resultTy] EXCEPT !.domain = u.result]), asserted)
        unblockResult(s2) == unblockTy(s2, resultTy)
    IN IF n.v = "Local" THEN With(simplifyUnion(s, n.domain, "nil"), widened)
       ELSE IF n.v \in {"Blocked", "Pending"}
       THEN With(emplace(s, resultTy, BoundTo("nil")), unblockResult)
       ELSE s

\* the loops of the Unpack handler over the result pack, from element k on
RECURSIVE unpackFrom(_, _, _, _, _, _)
unpackFrom(s, id, results, sources, k, ch) ==
    IF k > Len(results) THEN s
    ELSE LET rest(s1) == unpackFrom(s1, id, results, sources, k + 1, ch)
         IN IF k <= Len(sources)
            THEN With(tryDispatchUnpack1(s, id, results[k], follow(s.ty, sources[k]), ch), rest)
            ELSE With(leftOver(s, results[k]), rest)

\* tryDispatch(const UnpackConstraint&, constraint)
dispatchUnpack(s, id, ch) ==
    LET c == s.cons[id]
        sourcePack == followPack(s.tp, c.sp)
        resultPack == followPack(s.tp, c.rp)
        results == s.tp[resultPack].head
        unblockResult(s1) == unblockTp(s1, resultPack)
    IN IF isBlockedTp(s, sourcePack)
       THEN Ret(blockTp(s, sourcePack, id), FALSE)
       ELSE IF isBlockedTp(s, resultPack)
       THEN Ret(With(emplacePack(luauAssert(s, resultPack # sourcePack, "resultPack != sourcePack"),
                                 resultPack, BoundPackTo(sourcePack)),
                     unblockResult), TRUE)
       ELSE Ret(unpackFrom(s, id, results, packHead(s.tp, sourcePack, Len(results)), 1, ch), TRUE)

\* tryDispatch(const Unpack1Constraint&, constraint)
dispatchUnpack1(s, id, ch) ==
    Ret(tryDispatchUnpack1(s, id, s.cons[id].r, s.cons[id].a, ch), TRUE)

Unpack(resultPack, sourcePack) ==
    [Payload("Unpack", NoNode, NoNode, NoNode) EXCEPT !.rp = resultPack, !.sp = sourcePack]

\* a next function whose first result is stripped of nil before the loop
\* variables are unpacked from it
nextResultsStripped(s, id, nextFn) ==
    LET nextRetPack == s.ty[nextFn].ret
        head == s.tp[nextRetPack].head
        packed(u) ==
            LET allocated(s3) == pushConstraint(s3, Unpack(s.cons[id].rp, NextFreshPack(u.s)))
            IN With(addTypePack(u.s, [PackNode("Pack") EXCEPT !.head = <<u.result>> \o Tail(head)]),
                    allocated)
    IN IF head = <<>>
       THEN pushConstraint(s, Unpack(s.cons[id].rp, nextRetPack))
       ELSE With(stripNil(s, head[1]), packed)

\* the __iter path from the instantiated next function on:
\* pushConstraint(UnpackConstraint{c.variables, nextFn->retTypes})
nextResults(s, id, nextFn) ==
    pushConstraint(luauAssert(s, s.ty[nextFn].v = "Function", "nextFn"),
                   Unpack(s.cons[id].rp, s.ty[nextFn].ret))

\* the unpack lambda of tryDispatchIterableTable: every variable gets t
unpackVariadic(s, id, t) ==
    LET pushed(s1) == pushConstraint(s1, Unpack(s.cons[id].rp, NextFreshPack(s)))
    IN With(addTypePack(s, [PackNode("Variadic") EXCEPT !.to = t]), pushed)

\* findMetatableEntry(builtinTypes, errors, type, entry, location): the entry
\* (NoNode: none) and the solver it leaves; a metatable that is neither a table
\* nor any is reported to errors at the location given
findMetatableEntry(s, type, entry, location) ==
    LET n == s.ty[follow(s.ty, type)]
    IN IF n.v # "Metatable"
       THEN [s |-> s, entry |-> NoNode]
       ELSE IF n.metatable # NoNode
       THEN IF s.ty[follow(s.ty, n.metatable)].v = "Any"
            THEN [s |-> s, entry |-> "any"]
            ELSE [s |-> IF s.ice THEN s
                        ELSE [s EXCEPT !.errs = Append(@, TypeError(location, "Metatable was not a table"))],
                  entry |-> NoNode]
       ELSE [s |-> s, entry |-> IF entry = "__iter" THEN n.iter ELSE NoNode]

RECURSIVE releaseLocals(_, _, _)
releaseLocals(s, head, k) ==
    IF k > Len(head) THEN s
    ELSE LET rest(s1) == releaseLocals(s1, head, k + 1)
         IN IF s.ty[head[k]].v = "Local" THEN With(releaseLocal(s, head[k]), rest) ELSE rest(s)

\* tryDispatchIterableTable(iteratorTy, c, constraint, force), with
\* instantiate() returning the function it is given
tryDispatchIterableTable(s, id, iteratorIn, force, ch) ==
    LET c == s.cons[id]
        iteratorTy == follow(s.ty, iteratorIn)
        n == s.ty[iteratorTy]
        \* the block_ lambda
        block(t) == IF force THEN Ret(luauAssert(s, FALSE, "false"), FALSE)
                    ELSE Ret(blockTy(s, t, id), FALSE)
        locals(u) == releaseLocals(u.s, u.s.tp[followPack(u.s.tp, c.rp)].head, 1)
        unified(s1) == With(unifyPacks(s1, id, c.rp, NextFreshPack(s), ch), locals)
        iterFtv == IF n.iter = NoNode THEN Node("Unalloc") ELSE s.ty[follow(s.ty, n.iter)]
        iterRets == packHead(s.tp, iterFtv.ret, 2)
        next(u) == IF iterRets = <<>> THEN u.s ELSE nextResults(u.s, id, follow(u.s.ty, iterRets[1]))
        iterArgs(s1) == With(unifyPacks(s1, id, iterFtv.arg, NextFreshPack(s), ch), next)
        \* what follows the call of findMetatableEntry
        looked(fm) ==
            IF fm.entry # NoNode
            THEN IF isBlockedTy(fm.s, fm.entry)
                 THEN Ret(blockTy(fm.s, fm.entry, id), FALSE)
                 ELSE IF iterFtv.v = "Function"
                 THEN Ret(With(addTypePack(fm.s, [PackNode("Pack") EXCEPT !.head = <<iteratorTy>>]),
                               iterArgs), TRUE)
                 ELSE Ret(fm.s, TRUE)
            ELSE IF n.v = "Metatable"
            THEN Ret(luauAssert(fm.s, FALSE, "false"), TRUE)
            ELSE Ret(unpackVariadic(fm.s, id, "error"), TRUE)
    IN IF n.v = "Free" THEN block(iteratorTy)
       ELSE IF n.v \in {"Any", "Error", "Never"} THEN Ret(unpackVariadic(s, id, iteratorTy), TRUE)
       ELSE IF IsTable(n)
       THEN IF n.v = "FreeTable" /\ ~force
            THEN Ret(blockTy(s, iteratorTy, id), FALSE)
            ELSE IF n.idxK # NoNode
            THEN Ret(With(addTypePack(s, [PackNode("Pack") EXCEPT !.head = <<n.idxK, n.idxV>>]),
                          unified), TRUE)
            ELSE Ret(unpackVariadic(s, id, "error"), TRUE)
       ELSE With(findMetatableEntry(s, iteratorTy, "__iter", DefaultLocation), looked)

\* tryDispatchIterableFunction(nextTy, tableTy, firstIndexTy, c, constraint, force)
tryDispatchIterableFunction(s, id, nextTy, tableTy, firstIndexIn, force) ==
    LET firstIndexTy == follow(s.ty, firstIndexIn)
        inherit(sp) == inheritBlocks(sp, id, Len(sp.cons))
    IN IF s.ty[firstIndexTy].v = "Free"
       THEN IF force
            THEN Ret(luauAssert(s, FALSE, "false"), FALSE)
            ELSE Ret(blockTy(s, firstIndexTy, id), FALSE)
       ELSE Ret(With(nextResultsStripped(s, id, nextTy), inherit), TRUE)

\* tryDispatch(const IterableConstraint&, constraint, force), for an iterator
\* pack without a tail
dispatchIterable(s, id, force, ch) ==
    LET c == s.cons[id]
        head == c.args
        blockedHead == {head[k] : k \in {j \in 1..Len(head) : isBlockedTy(s, head[j])}}
        nextTy == follow(s.ty, head[1])
        arg(k) == IF Len(head) >= k THEN head[k] ELSE "nil"
    IN IF blockedHead # {}
       THEN Ret(blockAllTy(s, blockedHead, id), FALSE)
       ELSE IF head = <<>>
       THEN Ret(unifyPacks(s, id, "anyPack", c.rp, ch).s, TRUE)
       ELSE IF s.ty[nextTy].v = "Free"
       THEN IF force THEN Ret(s, TRUE) ELSE Ret(blockTy(s, nextTy, id), FALSE)
       ELSE IF s.ty[nextTy].v = "Function"
       THEN tryDispatchIterableFunction(s, id, nextTy, arg(2), arg(3), force)
       ELSE tryDispatchIterableTable(s, id, head[1], force, ch)

\* the loop over c.discriminantTypes: a still blocked one is bound to any
RECURSIVE bindDiscriminants(_, _, _)
bindDiscriminants(s, disc, k) ==
    IF k > Len(disc) THEN s
    ELSE LET rest(s1) == bindDiscriminants(s1, disc, k + 1)
         IN IF disc[k] # NoNode /\ isBlockedTy(s, disc[k])
            THEN With(emplace(s, follow(s.ty, disc[k]), BoundTo("any")), rest)
            ELSE rest(s)

\* a faulty collapse that leaves every callee as it is
neverCollapses(tys, fn) == fn

\* the collapse lambda applied to fn: a union or intersection whose members
\* all follow to one node is that node
collapse(tys, fn) ==
    LET mem == tys[fn].mem
    IN IF /\ tys[fn].v \in {"Union", "Intersection"} /\ mem # <<>>
          /\ \A k \in 1..Len(mem) : follow(tys, mem[k]) = follow(tys, mem[1])
       THEN follow(tys, mem[1])
       ELSE fn

\* resolver.selectOverload(fn, argsPack): the callee is recorded
selectOverload(s, fn) == IF s.ice THEN s ELSE [s EXCEPT !.selected = @ \cup {fn}]

\* tryDispatch(const FunctionCallConstraint&, constraint), for a callee without
\* a __call metamethod, magic function or generics
dispatchFunctionCall(s, id, ch) ==
    LET c == s.cons[id]
        fn == follow(s.ty, c.a)
        blockedArgs == {c.args[k] : k \in {j \in 1..Len(c.args) : isBlockedTy(s, c.args[j])}}
        \* if (argsTail && isBlocked(*argsTail)) block(*argsTail, constraint)
        blockTail(s1) == IF c.tail # NoNode /\ isBlockedTp(s1, c.tail)
                         THEN blockTp(s1, c.tail, id)
                         ELSE s1
        callee == collapse(s.ty, fn)
        \* queuer.traverse(overloadToUse); queuer.traverse(inferredTy)
        queued(s4) == queuerTraverse(s4, callee)
        unblockResult(s1) == unblockTp(s1, c.rp)
        unblockQueue(s3) == With(unblockResult(s3), queued)
        \* inferredTy = arena->addType(FunctionType{...})
        inferred(s2) == With(addType(s2, [Node("Function") EXCEPT !.ret = c.rp]), unblockQueue)
        resolved(s2) == With(selectOverload(s2, callee), inferred)
        discriminants(s1) == With(bindDiscriminants(s1, c.disc, 1), resolved)
        \* what follows the lookup of __call, which finds no entry
        looked(fm) == Ret(With(emplacePack(fm.s, c.rp, PackNode("FreePack")), discriminants), TRUE)
    IN IF isBlockedTy(s, fn) \/ hasUnresolvedConstraints(s.refs, fn)
       THEN Ret(blockTy(s, c.a, id), FALSE)
       ELSE IF s.ty[fn].v = "Error"
       THEN Ret(With(emplacePack(s, c.rp, BoundPackTo("errorPack")), unblockResult), TRUE)
       ELSE IF s.ty[fn].v = "Never"
       THEN Ret(With(emplacePack(s, c.rp, BoundPackTo("neverPack")), unblockResult), TRUE)
       ELSE IF blockedArgs # {} \/ (c.tail # NoNode /\ isBlockedTp(s, c.tail))
       THEN Ret(With(blockAllTy(s, blockedArgs, id), blockTail), FALSE)
       ELSE With(findMetatableEntry(s, callee, "__call", ConstraintLocation), looked)

\* ------------------------------------------------------ Reduce and ReducePack

\* the reports the family reducer may make on an instance: it waits for
\* blocked arguments only, and it reduces or finds uninhabited an instance only
Reductions(arguments, packs, isInstance) ==
    {red \in [reduced : BOOLEAN, uninhabited : BOOLEAN,
              blockedTypes : SUBSET arguments, blockedPacks : SUBSET packs] :
        /\ ~(red.reduced /\ red.uninhabited)
        /\ (red.reduced \/ red.uninhabited) => isInstance}

Members(q) == {q[k] : k \in 1..Len(q)}

\* what the reducer may report on the type or the pack a Reduce or ReducePack
\* constraint is about, and the unifier's verdicts for the other constraints
ChoicesFor(s, id) ==
    LET c == s.cons[id]
        n == s.ty[follow(s.ty, c.a)]
        pk == s.tp[followPack(s.tp, c.rp)]
        blockedOf(types) == {follow(s.ty, a) : a \in {b \in Members(types) : isBlockedTy(s, b)}}
        blockedPacksOf(packs) == {followPack(s.tp, a) : a \in {b \in Members(packs) : isBlockedTp(s, b)}}
    IN IF c.kind = "Reduce"
       THEN [ok : {TRUE}, push : {FALSE},
             red : Reductions(blockedOf(n.mem), blockedPacksOf(n.packArguments), n.v = "Family")]
       ELSE IF c.kind = "ReducePack"
       THEN [ok : {TRUE}, push : {FALSE},
             red : Reductions(blockedOf(pk.head), blockedPacksOf(pk.packArguments), pk.v = "FamilyPack")]
       ELSE Choices

\* reduceFamilies(ty, location, context, force) with the report red: a reduced
\* instance is replaced by its value
reduceFamilies(s, ty, red) ==
    [s |-> IF red.reduced THEN emplace(s, ty, BoundTo("number")) ELSE s,
     reducedTypes |-> IF red.reduced THEN {ty} ELSE {},
     reducedPacks |-> {},
     blockedTypes |-> red.blockedTypes,
     blockedPacks |-> red.blockedPacks,
     errors |-> IF red.uninhabited THEN {[kind |-> "UninhabitedTypeFamily", ty |-> ty]} ELSE {}]

\* reduceFamilies(tp, location, context, force) with the report red
reducePackFamilies(s, pack, red) ==
    [s |-> IF red.reduced THEN emplacePack(s, pack, BoundPackTo("NR")) ELSE s,
     reducedTypes |-> {},
     reducedPacks |-> IF red.reduced THEN {pack} ELSE {},
     blockedTypes |-> red.blockedTypes,
     blockedPacks |-> red.blockedPacks,
     errors |-> IF red.uninhabited THEN {[kind |-> "UninhabitedTypePackFamily", ty |-> pack]} ELSE {}]

\* unblock(r, constraint->location) for every r of a set of types
RECURSIVE unblockAllTy(_, _)
unblockAllTy(s, ts) ==
    IF ts = {} THEN s
    ELSE LET t == CHOOSE x \in ts : TRUE
             rest(s1) == unblockAllTy(s1, ts \ {t})
         IN With(unblockTy(s, t), rest)

\* unblock(r, constraint->location) for every r of a set of packs
RECURSIVE unblockAllTp(_, _)
unblockAllTp(s, ps) ==
    IF ps = {} THEN s
    ELSE LET p == CHOOSE x \in ps : TRUE
             rest(s1) == unblockAllTp(s1, ps \ {p})
         IN With(unblockTp(s, p), rest)

\* block(b, constraint) for every b of a set of packs
RECURSIVE blockAllTp(_, _, _)
blockAllTp(s, ps, c) ==
    IF ps = {} THEN s
    ELSE LET p == CHOOSE x \in ps : TRUE
             rest(s1) == blockAllTp(s1, ps \ {p}, c)
         IN With(blockTp(s, p, c), rest)

\* uninhabitedTypeFamilies.insert(...) for the uninhabited families among the
\* errors
internUninhabited(s, errors) ==
    IF s.ice THEN s
    ELSE [s EXCEPT !.uninhabitedTypeFamilies =
                       @ \cup {e.ty : e \in {x \in errors : x.kind \in {"UninhabitedTypeFamily",
                                                                        "UninhabitedTypePackFamily"}}}]

\* a faulty handler that interns the uninhabited families whatever the result
reducedAlwaysInterns(s, id, result, force) ==
    LET reductionFinished == result.blockedTypes = {} /\ result.blockedPacks = {}
        unblockPacks(s1) == unblockAllTp(s1, result.reducedPacks)
        record(s1) == internUninhabited(s1, result.errors)
        blockPacks(s1) == blockAllTp(s1, result.blockedPacks, id)
        blockTypes(s1) == With(blockAllTy(s1, result.blockedTypes, id), blockPacks)
        returned(s1) == IF force THEN Ret(s1, TRUE) ELSE Ret(blockTypes(s1), reductionFinished)
    IN With(With(With(unblockAllTy(result.s, result.reducedTypes), unblockPacks), record), returned)

\* the handlers of Reduce and ReducePack from the reducer's result on
reduced(s, id, result, force) ==
    LET reductionFinished == result.blockedTypes = {} /\ result.blockedPacks = {}
        unblockPacks(s1) == unblockAllTp(s1, result.reducedPacks)
        record(s1) == IF force \/ reductionFinished THEN internUninhabited(s1, result.errors) ELSE s1
        blockPacks(s1) == blockAllTp(s1, result.blockedPacks, id)
        blockTypes(s1) == With(blockAllTy(s1, result.blockedTypes, id), blockPacks)
        returned(s1) == IF force THEN Ret(s1, TRUE) ELSE Ret(blockTypes(s1), reductionFinished)
    IN With(With(With(unblockAllTy(result.s, result.reducedTypes), unblockPacks), record), returned)

\* tryDispatch(const ReduceConstraint&, constraint, force)
dispatchReduce(s, id, force, ch) ==
    reduced(s, id, reduceFamilies(s, follow(s.ty, s.cons[id].a), ch.red), force)

\* tryDispatch(const ReducePackConstraint&, constraint, force)
dispatchReducePack(s, id, force, ch) ==
    reduced(s, id, reducePackFamilies(s, followPack(s.tp, s.cons[id].rp), ch.red), force)

\* the handler of the constraint's kind
dispatchKind(s, id, force, ch) ==
    LET kind == s.cons[id].kind
    IN CASE kind = "Subtype" -> dispatchSubtype(s, id, force, ch)
         [] kind = "PackSubtype" -> dispatchPackSubtype(s, id, force, ch)
         [] kind = "Name" -> dispatchName(s, id)
         [] kind = "HasProp" -> dispatchHasProp(s, id, ch)
         [] kind = "SetProp" -> dispatchSetProp(s, id, ch)
         [] kind = "HasIndexer" -> dispatchHasIndexer(s, id, ch)
         [] kind = "FunctionCall" -> dispatchFunctionCall(s, id, ch)
         [] kind = "PrimitiveType" -> dispatchPrimitiveType(s, id)
         [] kind = "TypeAliasExpansion" -> dispatchTypeAliasExpansion(s, id)
         [] kind = "Iterable" -> dispatchIterable(s, id, force, ch)
         [] kind = "Unpack" -> dispatchUnpack(s, id, ch)
         [] kind = "Unpack1" -> dispatchUnpack1(s, id, ch)
         [] kind = "Reduce" -> dispatchReduce(s, id, force, ch)
         [] kind = "ReducePack" -> dispatchReducePack(s, id, force, ch)

\* tryDispatch(NotNull<const Constraint> constraint, bool force)
tryDispatch(s, id, force, ch) ==
    IF ~force /\ isBlockedC(s, id)
    THEN [s |-> s, ok |-> FALSE, handled |-> FALSE]
    ELSE LET \* if (success) unblock(constraint);
             finish(r) ==
                 [s |-> IF r.ok THEN unblockC(r.s, id) ELSE r.s, ok |-> r.ok, handled |-> TRUE]
         IN With(dispatchKind(s, id, force, ch), finish)

\* ------------------------------------------------------------ the scheduler

VARIABLES
    ty,          \* the arena's types
    tp,          \* the arena's type packs
    blocked,     \* blocked, as pairs <<key, constraint>>
    bc,          \* blockedConstraints
    refs,        \* unresolvedConstraints
    cons,        \* constraints and solverConstraints: the payload of each id
    unsolved,    \* unsolvedConstraints
    nfresh,      \* nodes allocated since construction
    npush,       \* constraints pushed since construction
    errs,        \* `errors`
    instantiatedAliases, \* the alias cache
    asserted,    \* the LUAU_ASSERTs that have failed
    released,    \* history: the keys passed to unblock_ by the latest dispatch
    selected,    \* history: the callees the latest dispatch handed to selectOverload
    upperBoundContributors, \* upperBoundContributors, as pairs <<expanded, addition>>
    uninhabitedTypeFamilies, \* the family instances interned as uninhabited
    pc,          \* where run() is: "init", "pass", "done", or "ice" (unwound)
    force,       \* the mode of the current pass
    i,           \* the scan index of the current pass (1-based)
    progress,    \* the current pass' progress flag
    lastCall,    \* history: the latest call of tryDispatch from a pass
    solved,      \* history: the constraints dispatched with success
    passCount,   \* history: how many constraints the current pass has dispatched
    prevPass,    \* history: the mode and dispatch count of the pass before
    expired,     \* limits.finishTime is set and the clock is past it
    cancelled,   \* limits.cancellationToken is set and cancellation is requested
    thrown,      \* the exception run() has thrown (NoThrow: none)
    saturated    \* history: the latest call of saturateArguments on its own

vars ==
    <<instantiatedAliases, selected, upperBoundContributors, uninhabitedTypeFamilies, saturated,
      ty, tp, blocked, bc, refs, cons, unsolved, nfresh, npush, errs, asserted, released, pc,
      force, i, progress, lastCall, solved, passCount, prevPass, expired, cancelled, thrown>>

\* the solver state handed to the handlers
Cur ==
    [ty |-> ty, tp |-> tp, blocked |-> blocked, bc |-> bc, refs |-> refs, cons |-> cons,
     unsolved |-> unsolved, nfresh |-> nfresh, npush |-> npush, errs |-> errs,
     instantiatedAliases |-> instantiatedAliases,
     upperBoundContributors |-> upperBoundContributors,
     uninhabitedTypeFamilies |-> uninhabitedTypeFamilies,
     asserted |-> asserted, released |-> {}, selected |-> {}, ice |-> FALSE]

\* the free types reachable from t: Constraint::getFreeTypes's collector stops
\* at a free type and descends into unions and tables
RECURSIVE freeTypesIn(_, _, _)
freeTypesIn(tys, t, fuel) ==
    LET f == follow(tys, t)
        n == tys[f]
    IN IF t = NoNode \/ fuel = 0 THEN {}
       ELSE IF n.v = "Free" THEN {f}
       ELSE IF n.v = "Union" THEN UNION {freeTypesIn(tys, n.mem[k], fuel - 1) : k \in 1..Len(n.mem)}
       ELSE IF IsTable(n) THEN UNION {freeTypesIn(tys, x, fuel - 1) : x \in {n.prop, n.writeTy, n.idxK, n.idxV}}
       ELSE {}

\* Constraint::getFreeTypes(): only subtype constraints are counted
getFreeTypes(tys, c) ==
    IF c.kind = "Subtype"
    THEN freeTypesIn(tys, c.a, Cardinality(Nodes)) \cup freeTypesIn(tys, c.b, Cardinality(Nodes))
    ELSE {}

\* a faulty constructor loop that registers no dependency
dependenciesIgnored(s, ds, k) == s

\* the constructor's inner loop: c = cons[k] is blocked on each dependency
RECURSIVE blockDeps(_, _, _)
blockDeps(s, ds, k) ==
    IF ds = {} THEN s
    ELSE LET d == CHOOSE x \in ds : TRUE
             rest(s1) == blockDeps(s1, ds \ {d}, k)
         IN With(blockC(s, d, k), rest)

\* the constructor's loop over the constraints, from constraint k on
RECURSIVE construct(_, _)
construct(s, k) ==
    IF k > Len(s.cons) THEN s
    ELSE LET rest(s2) == construct(s2, k + 1)
             dependencies(s1) == With(blockDeps(s1, s.cons[k].deps, k), rest)
         IN With([s EXCEPT !.unsolved = Append(@, k),
                           !.refs = [t \in DOMAIN @ |->
                                        IF t \in getFreeTypes(s.ty, s.cons[k])
                                        THEN @[t] + 1 ELSE @[t]]],
                 dependencies)

\* the ids of a selection of pool entries, in creation order
Rank(sel, p) == Cardinality({q \in sel : q <= p})

\* the constraint list the generator builds from the pool entries sel
Generated(sel) ==
    [k \in 1..Cardinality(sel) |->
        LET p == CHOOSE q \in sel : Rank(sel, q) = k
        IN [Pool[p].c EXCEPT !.deps = {Rank(sel, d) : d \in Pool[p].after \cap sel}]]

\* the generator makes each constraint the owner of its blocked result type
Owned(gen) ==
    [n \in Nodes |->
        IF \E k \in 1..Len(gen) : gen[k].r = n
        THEN [Arena0[n] EXCEPT !.owner = CHOOSE k \in 1..Len(gen) : gen[k].r = n]
        ELSE Arena0[n]]

\* the assignments of the constraint list gen to the local n: its places in
\* the result packs of the Unpack and Iterable constraints, and the Unpack1
\* constraints on it
Assignments(gen, n) ==
    {<<k, j>> \in (1..Len(gen)) \X (0..3) :
        \/ j = 0 /\ gen[k].kind = "Unpack1" /\ gen[k].r = n
        \/ /\ gen[k].kind \in {"Unpack", "Iterable"} /\ gen[k].rp # NoNode
           /\ j \in 1..Len(Packs0[gen[k].rp].head) /\ Packs0[gen[k].rp].head[j] = n}

\* the generator counts in blockCount the assignments to each local
Counted(gen) ==
    [n \in Nodes |->
        IF Arena0[n].v = "Local" /\ Assignments(gen, n) # {}
        THEN [Owned(gen)[n] EXCEPT !.blockCount = Cardinality(Assignments(gen, n))]
        ELSE Owned(gen)[n]]

\* ConstraintSolver::ConstraintSolver on the constraint list gen
ConstructedFrom(gen) ==
    construct([ty |-> Counted(gen), tp |-> Packs0, blocked |-> {},
               bc |-> [c \in 1..MaxCons |-> 0], refs |-> [t \in Nodes |-> 0],
               cons |-> gen, unsolved |-> <<>>, nfresh |-> 0, npush |-> 0,
               errs |-> <<>>, instantiatedAliases |-> {}, upperBoundContributors |-> {},
               uninhabitedTypeFamilies |-> {},
               asserted |-> {}, released |-> {}, selected |-> {}, ice |-> FALSE], 1)

\* ConstraintSolver::ConstraintSolver on the generator's output
Constructed(sel) == ConstructedFrom(Generated(sel))

\* a call of tryDispatch from a pass: the constraint, the mode, whether the
\* constraint was blocked, whether a handler ran, what it returned and how many
\* constraints it pushed
NoCall == [c |-> 0, force |-> FALSE, wasBlocked |-> FALSE, handled |-> FALSE, ok |-> FALSE, pushed |-> 0]

NoPass == [mode |-> "none", n |-> 0]

\* no exception has left run()
NoThrow == [error |-> "none", moduleName |-> NoNode]

\* saturateArguments has not been called on its own
NoSaturation ==
    [called |-> FALSE, fn |-> TypeFun(<<>>, NoNode), rawTypeArguments |-> <<>>,
     rawPackArguments |-> <<>>, result |-> saturateArguments(TypeFun(<<>>, NoNode), <<>>, <<>>)]

Selections == UNION {{sel \in SUBSET P : Cardinality(sel) <= MaxInit} : P \in Programs}

\* the solver as constructed, before run()
InitFrom(s) ==
    /\ ty = s.ty /\ tp = s.tp /\ blocked = s.blocked /\ bc = s.bc /\ refs = s.refs
    /\ cons = s.cons /\ unsolved = s.unsolved /\ nfresh = 0 /\ npush = 0 /\ errs = <<>>
    /\ instantiatedAliases = {} /\ selected = {} /\ upperBoundContributors = {}
    /\ uninhabitedTypeFamilies = {}
    /\ asserted = {} /\ released = {}
    /\ pc = "init" /\ force = FALSE /\ i = 1 /\ progress = FALSE
    /\ lastCall = NoCall /\ solved = {} /\ passCount = 0 /\ prevPass = NoPass
    /\ expired = FALSE /\ cancelled = FALSE /\ thrown = NoThrow
    /\ saturated = NoSaturation

Init == \E s \in {Constructed(sel) : sel \in Selections} : InitFrom(s)

\* the state a handler leaves becomes the solver's
Adopt(s) ==
    /\ ty' = s.ty /\ tp' = s.tp /\ blocked' = s.blocked /\ bc' = s.bc /\ cons' = s.cons
    /\ nfresh' = s.nfresh /\ npush' = s.npush /\ errs' = s.errs /\ asserted' = s.asserted
    /\ released' = s.released /\ instantiatedAliases' = s.instantiatedAliases
    /\ selected' = s.selected /\ upperBoundContributors' = s.upperBoundContributors
    /\ uninhabitedTypeFamilies' = s.uninhabitedTypeFamilies

\* unsolvedConstraints.erase(unsolvedConstraints.begin() + i)
erase(q, k) == [j \in 1..(Len(q) - 1) |-> IF j < k THEN q[j] ELSE q[j + 1]]

\* a faulty decrement that does not stop at 0
decrementUnchecked(r, fts) == [t \in DOMAIN r |-> IF t \in fts THEN r[t] - 1 ELSE r[t]]

\* the loop that decrements the reference count of the free types of c
decrementRefs(r, fts) == [t \in DOMAIN r |-> IF t \in fts /\ r[t] > 0 THEN r[t] - 1 ELSE r[t]]

\* run(): return at once when isDone(), else start the first normal pass
RunStart ==
    /\ pc \in {"init", "shuffled"}
    /\ pc' = IF unsolved = <<>> THEN "done" ELSE "pass"
    /\ force' = FALSE /\ i' = 1 /\ progress' = FALSE
    /\ UNCHANGED <<selected, instantiatedAliases, upperBoundContributors, uninhabitedTypeFamilies, saturated, ty, tp, blocked, bc, refs, cons, unsolved, nfresh, npush, errs, asserted,
                   released, lastCall, solved, passCount, prevPass, expired, cancelled, thrown>>

\* runSolverPass: a blocked constraint is skipped in a normal pass
Skip ==
    /\ pc = "pass" /\ i <= Len(unsolved)
    /\ ~force /\ isBlockedC(Cur, unsolved[i])
    /\ i' = i + 1
    /\ UNCHANGED <<selected, instantiatedAliases, upperBoundContributors, uninhabitedTypeFamilies, saturated, ty, tp, blocked, bc, refs, cons, unsolved, nfresh, npush, errs, asserted,
                   released, pc, force, progress, lastCall, solved, passCount, prevPass, expired,
                   cancelled, thrown>>

\* a faulty pass that goes on after a successful dispatch in force mode
OutcomeForceGoesOn(c, r) ==
    /\ UNCHANGED <<expired, cancelled, thrown, saturated>>
    /\ lastCall' = [c |-> c, force |-> force, wasBlocked |-> bc[c] > 0, handled |-> r.handled,
                    ok |-> r.ok, pushed |-> r.s.npush - npush]
    /\ IF r.s.ice
       THEN /\ pc' = "ice"
            /\ Adopt(r.s)
            /\ unsolved' = r.s.unsolved /\ refs' = r.s.refs
            /\ UNCHANGED <<force, i, progress, solved, passCount, prevPass>>
       ELSE IF r.ok
       THEN /\ Adopt(unblockC(r.s, c))
            /\ unsolved' = erase(r.s.unsolved, i)
            /\ refs' = decrementRefs(r.s.refs, getFreeTypes(r.s.ty, r.s.cons[c]))
            /\ solved' = solved \cup {c}
            /\ progress' = TRUE /\ passCount' = passCount + 1
            /\ UNCHANGED <<force, i, prevPass>>
            /\ pc' = "pass"
       ELSE /\ Adopt(r.s)
            /\ unsolved' = r.s.unsolved /\ refs' = r.s.refs
            /\ i' = i + 1
            /\ UNCHANGED <<pc, force, progress, solved, passCount, prevPass>>

\* what runSolverPass does with the outcome r of tryDispatch(c, force)
Outcome(c, r) ==
    /\ UNCHANGED <<expired, cancelled, thrown, saturated>>
    /\ lastCall' = [c |-> c, force |-> force, wasBlocked |-> bc[c] > 0, handled |-> r.handled,
                    ok |-> r.ok, pushed |-> r.s.npush - npush]
    /\ IF r.s.ice
       THEN /\ pc' = "ice"
            /\ Adopt(r.s)
            /\ unsolved' = r.s.unsolved /\ refs' = r.s.refs
            /\ UNCHANGED <<force, i, progress, solved, passCount, prevPass>>
       ELSE IF r.ok
       THEN /\ Adopt(unblockC(r.s, c))
            /\ unsolved' = erase(r.s.unsolved, i)
            /\ refs' = decrementRefs(r.s.refs, getFreeTypes(r.s.ty, r.s.cons[c]))
            /\ solved' = solved \cup {c}
            /\ IF force
               THEN \* return true: the outer loop starts a normal pass
                    /\ force' = FALSE /\ i' = 1 /\ progress' = FALSE
                    /\ passCount' = 0
                    /\ prevPass' = [mode |-> "force", n |-> passCount + 1]
               ELSE /\ progress' = TRUE /\ passCount' = passCount + 1
                    /\ UNCHANGED <<force, i, prevPass>>
            /\ pc' = "pass"
       ELSE /\ Adopt(r.s)
            /\ unsolved' = r.s.unsolved /\ refs' = r.s.refs
            /\ i' = i + 1
            /\ UNCHANGED <<pc, force, progress, solved, passCount, prevPass>>

\* runSolverPass: one iteration that calls tryDispatch
Dispatch ==
    /\ pc = "pass" /\ i <= Len(unsolved)
    /\ force \/ ~isBlockedC(Cur, unsolved[i])
    /\ ~expired /\ ~cancelled
    /\ \E r \in {tryDispatch(Cur, unsolved[i], force, ch) : ch \in ChoicesFor(Cur, unsolved[i])} :
           Len(r.s.cons) <= MaxCons /\ Outcome(unsolved[i], r)

\* a faulty outer loop that runs a force pass after every normal pass
PassEndAlwaysForces ==
    /\ pc = "pass" /\ i > Len(unsolved)
    /\ prevPass' = [mode |-> IF force THEN "force" ELSE "normal", n |-> passCount]
    /\ passCount' = 0 /\ i' = 1 /\ progress' = FALSE
    /\ IF ~force
       THEN /\ pc' = "pass"
            /\ force' = TRUE
       ELSE /\ pc' = IF progress THEN "pass" ELSE "done"
            /\ force' = FALSE
    /\ UNCHANGED <<selected, instantiatedAliases, upperBoundContributors, uninhabitedTypeFamilies, saturated, ty, tp, blocked, bc, refs, cons, unsolved, nfresh, npush, errs, asserted,
                   released, lastCall, solved, expired, cancelled, thrown>>

\* a faulty outer loop that goes round again after a force pass without progress
PassEndNeverExits ==
    /\ pc = "pass" /\ i > Len(unsolved)
    /\ prevPass' = [mode |-> IF force THEN "force" ELSE "normal", n |-> passCount]
    /\ passCount' = 0 /\ i' = 1 /\ progress' = FALSE
    /\ pc' = "pass"
    /\ force' = (~force /\ ~progress)
    /\ UNCHANGED <<selected, instantiatedAliases, upperBoundContributors, uninhabitedTypeFamilies, saturated, ty, tp, blocked, bc, refs, cons, unsolved, nfresh, npush, errs, asserted,
                   released, lastCall, solved, expired, cancelled, thrown>>

\* the end of a pass and the outer loop's decision
PassEnd ==
    /\ pc = "pass" /\ i > Len(unsolved)
    /\ prevPass' = [mode |-> IF force THEN "force" ELSE "normal", n |-> passCount]
    /\ passCount' = 0 /\ i' = 1 /\ progress' = FALSE
    /\ IF ~force
       THEN /\ pc' = "pass"
            /\ force' = ~progress
       ELSE /\ pc' = IF progress THEN "pass" ELSE "done"
            /\ force' = FALSE
    /\ UNCHANGED <<selected, instantiatedAliases, upperBoundContributors, uninhabitedTypeFamilies, saturated, ty, tp, blocked, bc, refs, cons, unsolved, nfresh, npush, errs, asserted,
                   released, lastCall, solved, expired, cancelled, thrown>>

Next == RunStart \/ Skip \/ Dispatch \/ PassEnd

Spec == Init /\ [][Next]_vars

\* run() is a sequential loop: it takes its next step whenever it has one
FairSpec == Spec /\ WF_vars(Next)

\* -------------------------------------------------------- saturateArguments

\* the lists of at most n elements of S
ListsOf(S, n) == UNION {[1..k -> S] : k \in 0..n}

\* the generic type and type pack parameters of an alias, with their defaults:
\*   <>    <A>    <A, B>    <A, B = number>    <A, B = A>    <A = string, B = A>
\*   <>    <P...>    <P..., Q...>    <P..., Q... = (number?, string)>
\*   <P... = (number?, string), Q... = P...>
TypeSchemes ==
    {<<<<>>, <<>>>>, <<<<"GA">>, <<NoNode>>>>, <<<<"GA", "GB">>, <<NoNode, NoNode>>>>,
     <<<<"GA", "GB">>, <<NoNode, "number">>>>, <<<<"GA", "GB">>, <<NoNode, "GA">>>>,
     <<<<"GA", "GB">>, <<"string", "GA">>>>}

PackSchemes ==
    {<<<<>>, <<>>>>, <<<<"GP">>, <<NoNode>>>>, <<<<"GP", "GQ">>, <<NoNode, NoNode>>>>,
     <<<<"GP", "GQ">>, <<NoNode, "NR">>>>, <<<<"GP", "GQ">>, <<"NR", "GP">>>>}

\* the aliases saturateArguments is called for
Aliases == {TypeFunWith(ts[1], ts[2], ps[1], ps[2], "T") : ts \in TypeSchemes, ps \in PackSchemes}

\* the raw arguments of a pending expansion: types, and the packs (MI),
\* (number?, string) and ...any
RawTypeArguments == ListsOf({"number", "string"}, MaxTypeArgs)

RawPackArguments == ListsOf({"IA", "NR", "anyPack"}, MaxPackArgs)

\* one call of saturateArguments
Saturate ==
    /\ ~saturated.called
    /\ \E fn \in Aliases : \E types \in RawTypeArguments : \E packs \in RawPackArguments :
           saturated' = [called |-> TRUE, fn |-> fn, rawTypeArguments |-> types,
                         rawPackArguments |-> packs,
                         result |-> saturateArguments(fn, types, packs)]
    /\ UNCHANGED <<selected, instantiatedAliases, upperBoundContributors, uninhabitedTypeFamilies, ty, tp, blocked, bc,
                   refs, cons, unsolved, nfresh, npush, errs, asserted, released, pc, force, i,
                   progress, lastCall, solved, passCount, prevPass, expired, cancelled, thrown>>

\* saturateArguments applied to an alias and raw arguments
SaturateSpec == InitFrom(Constructed({})) /\ [][Saturate]_vars

\* ---------------------------------------------------------------- randomize

\* unsigned int rng, as its two 16-bit halves <<high, low>>
Rng(seed) == <<(seed \div 65536) % 65536, seed % 65536>>

\* rng % m
rngMod(rng, m) == ((rng[1] % m) * (65536 % m) + (rng[2] % m)) % m

\* rng = rng * 1664525 + 1013904223, modulo 2^32
\* (1664525 = 25 * 65536 + 26125, 1013904223 = 15470 * 65536 + 62303)
rngNext(rng) ==
    LET low == rng[2] * 26125 + 62303
    IN <<(rng[1] * 26125 + rng[2] * 25 + 15470 + (low \div 65536)) % 65536, low % 65536>>

\* a faulty swap that copies q[b] over q[a]
swapCopies(q, a, b) == [q EXCEPT ![a] = q[b]]

\* std::swap(q[a], q[b]), 1-based
swap(q, a, b) == [q EXCEPT ![a] = q[b], ![b] = q[a]]

\* the Fisher-Yates loop of randomize, from the (0-based) index k down to 1
RECURSIVE shuffleFrom(_, _, _)
shuffleFrom(q, k, rng) ==
    IF k <= 0 THEN q
    ELSE shuffleFrom(swap(q, k + 1, rngMod(rng, k + 1) + 1), k - 1, rngNext(rng))

\* randomize(seed)
randomize(q, seed) == IF q = <<>> THEN q ELSE shuffleFrom(q, Len(q) - 1, Rng(seed))

\* the caller shuffles the unsolved constraints before run()
Randomize ==
    /\ pc = "init"
    /\ \E seed \in 0..MaxSeed : unsolved' = randomize(unsolved, seed)
    /\ pc' = "shuffled"
    /\ UNCHANGED <<selected, instantiatedAliases, upperBoundContributors, uninhabitedTypeFamilies, saturated, ty, tp, blocked, bc, refs, cons, nfresh, npush, errs, asserted,
                   released, force, i, progress, lastCall, solved, passCount, prevPass,
                   expired, cancelled, thrown>>

NextShuffled == Next \/ Randomize

\* run() after an optional randomize(seed)
OrderSpec == Init /\ [][NextShuffled]_vars

\* a unifier that succeeds and leaves no incomplete subtype
Unified == [ok |-> TRUE, push |-> FALSE, red |-> NoReduction]

\* run() as a function: the solver that the passes leave, started in a pass of
\* mode frc at index k with progress flag prog, with the unifier Unified
RECURSIVE runFrom(_, _, _, _, _)
runFrom(s, frc, k, prog, fuel) ==
    IF fuel = 0 \/ s.ice THEN s
    ELSE IF k > Len(s.unsolved)
    THEN IF frc THEN s
         ELSE runFrom(s, ~prog, 1, FALSE, fuel - 1)
    ELSE IF ~frc /\ isBlockedC(s, s.unsolved[k])
    THEN runFrom(s, frc, k + 1, prog, fuel - 1)
    ELSE LET c == s.unsolved[k]
             dispatched(s1) ==
                 IF frc THEN runFrom(s1, FALSE, 1, FALSE, fuel - 1)
                 ELSE runFrom(s1, FALSE, k, TRUE, fuel - 1)
             after(r) ==
                 IF r.s.ice THEN r.s
                 ELSE IF r.ok
                 THEN With([unblockC(r.s, c) EXCEPT
                               !.unsolved = erase(r.s.unsolved, k),
                               !.refs = decrementRefs(r.s.refs, getFreeTypes(r.s.ty, r.s.cons[c]))],
                           dispatched)
                 ELSE runFrom(r.s, frc, k + 1, prog, fuel - 1)
         IN With(tryDispatch(s, c, frc, Unified), after)

\* ------------------------------------------------------------------- limits

\* the environment: the wall clock passes limits.finishTime
Expire ==
    /\ pc \in {"init", "pass"} /\ ~expired
    /\ expired' = TRUE
    /\ UNCHANGED <<selected, instantiatedAliases, upperBoundContributors, uninhabitedTypeFamilies, saturated, ty, tp, blocked, bc, refs, cons, unsolved, nfresh, npush, errs, asserted,
                   released, pc, force, i, progress, lastCall, solved, passCount, prevPass,
                   cancelled, thrown>>

\* the environment: cancellation is requested through limits.cancellationToken
Cancel ==
    /\ pc \in {"init", "pass"} /\ ~cancelled
    /\ cancelled' = TRUE
    /\ UNCHANGED <<selected, instantiatedAliases, upperBoundContributors, uninhabitedTypeFamilies, saturated, ty, tp, blocked, bc, refs, cons, unsolved, nfresh, npush, errs, asserted,
                   released, pc, force, i, progress, lastCall, solved, passCount, prevPass,
                   expired, thrown>>

\* a faulty poll that looks at the cancellation token first
RaiseCancelFirst ==
    /\ pc = "pass" /\ i <= Len(unsolved)
    /\ force \/ ~isBlockedC(Cur, unsolved[i])
    /\ expired \/ cancelled
    /\ thrown' = [error |-> IF cancelled THEN "UserCancel" ELSE "TimeLimit",
                  moduleName |-> ModuleName]
    /\ pc' = "thrown"
    /\ UNCHANGED <<selected, instantiatedAliases, upperBoundContributors, uninhabitedTypeFamilies, saturated, ty, tp, blocked, bc, refs, cons, unsolved, nfresh, npush, errs, asserted,
                   released, force, i, progress, lastCall, solved, passCount, prevPass,
                   expired, cancelled>>

\* runSolverPass: the poll before tryDispatch throws (throwTimeLimitError,
\* throwUserCancelError) and the exception leaves run()
Raise ==
    /\ pc = "pass" /\ i <= Len(unsolved)
    /\ force \/ ~isBlockedC(Cur, unsolved[i])
    /\ expired \/ cancelled
    /\ thrown' = [error |-> IF expired THEN "TimeLimit" ELSE "UserCancel",
                  moduleName |-> ModuleName]
    /\ pc' = "thrown"
    /\ UNCHANGED <<selected, instantiatedAliases, upperBoundContributors, uninhabitedTypeFamilies, saturated, ty, tp, blocked, bc, refs, cons, unsolved, nfresh, npush, errs, asserted,
                   released, force, i, progress, lastCall, solved, passCount, prevPass,
                   expired, cancelled>>

NextLimited == Next \/ Expire \/ Cancel \/ Raise

\* run() under a deadline and a cancellation token
LimitSpec == Init /\ [][NextLimited]_vars

\* -------------------------------------------------------------- properties

\* run() has returned
Returned == pc = "done"

\* the current state is one in which the pass calls tryDispatch next
AtDispatch == pc = "pass" /\ i <= Len(unsolved) /\ (force \/ bc[unsolved[i]] = 0)

\* C1: after run() has returned, unsolved is empty and no constraint has a
\* positive blockedConstraints counter.
C1_RunLeavesNothing ==
    Returned => (unsolved = <<>> /\ \A c \in 1..MaxCons : bc[c] = 0)

\* C2: a force pass that starts with a non-empty unsolved list dispatches a
\* constraint.  A force pass returns at its first dispatch and a handler that
\* fails can only append to unsolved, so a force scan that runs off the end of
\* the list has dispatched nothing, and the claim is that the list is then empty.
C2_ForcePassDispatches ==
    (pc = "pass" /\ force /\ i > Len(unsolved)) => unsolved = <<>>

\* C3: run() terminates, and the outer loop is left exactly when a normal pass
\* and the force pass after it have both dispatched no constraint.
C3_Terminates ==
    /\ <>(pc \in {"done", "ice"})
    /\ [][(pc = "pass" /\ pc' = "done")
            <=> (/\ pc = "pass" /\ force /\ i > Len(unsolved)
                 /\ passCount = 0 /\ prevPass = [mode |-> "normal", n |-> 0])]_vars

\* a run in which both kinds of pass ran and dispatched nothing before the exit
C3_Witness ==
    /\ Returned /\ prevPass = [mode |-> "force", n |-> 0]
    /\ solved # {} /\ unsolved # <<>>

\* C4: a normal pass never hands a constraint whose blockedConstraints counter
\* is positive to a handler: it skips it and leaves it where it is in unsolved;
\* a force pass hands it to its handler whatever the counter.
C4_NormalSkipsBlocked ==
    /\ [](lastCall.handled /\ ~lastCall.force => ~lastCall.wasBlocked)
    /\ [][(pc = "pass" /\ i <= Len(unsolved) /\ bc[unsolved[i]] > 0)
            => IF force
               THEN lastCall'.c = unsolved[i] /\ lastCall'.handled /\ lastCall'.wasBlocked
               ELSE unsolved' = unsolved /\ i' = i + 1 /\ lastCall' = lastCall /\ ty' = ty]_vars

\* a normal pass has just stepped over a blocked constraint it did not call
C4_Witness ==
    /\ pc = "pass" /\ ~force /\ i >= 2 /\ i - 1 <= Len(unsolved)
    /\ bc[unsolved[i - 1]] > 0
    /\ lastCall.c # unsolved[i - 1]

\* C5: blockedConstraints[c] is the number of keys under which c is indexed in
\* blocked, and unblock_ never meets a waiting constraint whose counter is 0.
C5_CounterMatchesIndex ==
    /\ \A c \in 1..MaxCons : bc[c] = Cardinality({q \in blocked : q[2] = c})
    /\ "count > 0" \notin asserted

\* a subtype constraint that was blocked on its one key has been dispatched by
\* force and has blocked on that key again: its counter is still 1
C5_Witness ==
    /\ lastCall.handled /\ lastCall.wasBlocked /\ ~lastCall.ok
    /\ cons[lastCall.c].kind = "Subtype"
    /\ bc[lastCall.c] = 1

\* C6: two constraints blocked on the same placeholder are both indexed under
\* it (a subtype constraint whose handler has just failed is indexed under its
\* blocked operand), and when the placeholder is bound and unblocked, the entry
\* is erased and the counter of each constraint that waited is one less.
C6_BothReleased ==
    /\ [](lastCall.handled /\ ~lastCall.ok /\ cons[lastCall.c].kind = "Subtype"
            => \E t \in {cons[lastCall.c].a, cons[lastCall.c].b} :
                  /\ ty[follow(ty, t)].v \in {"Blocked", "Pending"}
                  /\ lastCall.c \in Waiting(blocked, TyKey(follow(ty, t))))
    /\ [][\A p \in Nodes :
            (/\ Cardinality(Waiting(blocked, TyKey(p))) >= 2
             /\ ty[p].v = "Blocked" /\ ty'[p].v = "Bound"
             /\ <<TyKey(p), Waiting(blocked, TyKey(p))>> \in released')
            => /\ Waiting(blocked', TyKey(p)) = {}
               /\ \A c \in Waiting(blocked, TyKey(p)) : bc'[c] = bc[c] - 1]_vars

\* a placeholder on which two constraints waited has been bound and unblocked
C6_Witness ==
    \E p \in Nodes : \E r \in released :
        /\ r[1] = TyKey(p) /\ Cardinality(r[2]) >= 2
        /\ ty[p].v = "Bound"
        /\ \A c \in r[2] : bc[c] = 0

\* C7: a dispatch that turns a Blocked or PendingExpansion node into a Bound
\* one leaves no entry for that node in blocked.
C7_BindingUnblocks ==
    [][\A p \in Nodes :
          (ty[p].v \in {"Blocked", "Pending"} /\ ty'[p].v = "Bound")
          => Waiting(blocked', TyKey(p)) = {}]_vars

C9_DependenciesFirst ==
    /\ [](pc = "init"
            => \A c \in 1..Len(cons) : \A d \in cons[c].deps : c \in Waiting(blocked, CKey(d)))
    /\ [](lastCall.handled /\ ~lastCall.force => cons[lastCall.c].deps \subseteq solved)
    /\ [][\A d \in solved' \ solved : Waiting(blocked', CKey(d)) = {}]_vars

\* a normal pass has dispatched a constraint that has dependencies
C9_Witness ==
    /\ lastCall.handled /\ ~lastCall.force /\ lastCall.ok
    /\ cons[lastCall.c].deps # {}

\* unsolved without its element i
Remaining == SubSeq(unsolved, 1, i - 1) \o SubSeq(unsolved, i + 1, Len(unsolved))

\* q begins with p
IsPrefix(p, q) == Len(p) <= Len(q) /\ SubSeq(q, 1, Len(p)) = p

\* the reference counts after the saturating decrement for constraint c
RefsAfter(c) ==
    [t \in Nodes |-> IF t \in getFreeTypes(ty', cons[c]) /\ refs[t] > 0 THEN refs[t] - 1 ELSE refs[t]]

\* C10 as stated: when tryDispatch(c) succeeds, c is removed from unsolved (the
\* others keep their order), the scan continues with the constraint that
\* followed c, unblock(c) is applied and the reference counts of the free types
\* of c are decremented, saturating at 0; when it fails, unsolved and the
\* reference counts are unchanged and the scan advances by one.
C10_AsStated ==
    [][AtDispatch =>
          IF lastCall'.ok
          THEN /\ IsPrefix(Remaining, unsolved')
               /\ \A k \in 1..Len(unsolved') : unsolved'[k] # unsolved[i]
               /\ pc' = "pass" /\ force' = force /\ i' = i
               /\ Waiting(blocked', CKey(unsolved[i])) = {}
               /\ refs' = RefsAfter(unsolved[i])
          ELSE /\ unsolved' = unsolved /\ refs' = refs
               /\ i' = i + 1]_vars

\* C10, amended: on success the scan continues with the constraint that
\* followed c in a normal pass only (a force pass ends, and a normal pass starts
\* from the head of the list); on failure unsolved is unchanged except for the
\* constraints the handler has appended.
C10_DispatchFrame ==
    [][AtDispatch =>
          IF lastCall'.ok
          THEN /\ IsPrefix(Remaining, unsolved')
               /\ \A k \in 1..Len(unsolved') : unsolved'[k] # unsolved[i]
               /\ pc' = "pass" /\ ~force'
               /\ i' = IF force THEN 1 ELSE i
               /\ Waiting(blocked', CKey(unsolved[i])) = {}
               /\ refs' = RefsAfter(unsolved[i])
          ELSE /\ IsPrefix(unsolved, unsolved')
               /\ Len(unsolved') = Len(unsolved) + lastCall'.pushed
               /\ refs' = refs
               /\ i' = i + 1 /\ pc' = "pass" /\ force' = force]_vars

\* a handler has failed after it appended a constraint to unsolved
C10_Witness ==
    /\ lastCall.handled /\ ~lastCall.ok /\ lastCall.pushed > 0
    /\ pc = "pass" /\ i >= 2

\* the solver's data: the arena, the blocking index and the constraint lists
SolverData == <<ty, tp, blocked, bc, refs, cons, unsolved, solved, lastCall>>

\* C11 as stated: every pass iteration polls the deadline and the cancel flag:
\* once the deadline has passed the iteration throws TimeLimit, once
\* cancellation is requested it throws UserCancel (TimeLimit first), with the
\* module name; nothing is dispatched after the trigger and nothing changes.
C11_AsStated ==
    /\ [][(/\ pc = "pass" /\ i <= Len(unsolved)
           /\ expired \/ cancelled
           /\ expired' = expired /\ cancelled' = cancelled)
            => /\ thrown' = [error |-> IF expired THEN "TimeLimit" ELSE "UserCancel",
                             moduleName |-> ModuleName]
               /\ SolverData' = SolverData]_vars
    /\ [][thrown = NoThrow]_vars

\* C11, amended: the iterations that poll are those that are about to call
\* tryDispatch; a normal pass still steps over a blocked constraint after the
\* trigger.  After the trigger nothing is dispatched and the solver's data
\* stays as it is, and an exception ends run().
C11_LimitsPolled ==
    /\ [][(/\ AtDispatch
           /\ expired \/ cancelled
           /\ expired' = expired /\ cancelled' = cancelled)
            => /\ thrown' = [error |-> IF expired THEN "TimeLimit" ELSE "UserCancel",
                             moduleName |-> ModuleName]
               /\ SolverData' = SolverData]_vars
    /\ [][expired \/ cancelled => SolverData' = SolverData]_vars
    /\ [][thrown = NoThrow]_vars
    /\ [](thrown.error = "UserCancel" => cancelled /\ ~expired)
    /\ [](thrown.error = "TimeLimit" => expired)

\* the deadline passed and cancellation was requested in the middle of a run,
\* and run() has thrown TimeLimit
C11_Witness ==
    /\ thrown = [error |-> "TimeLimit", moduleName |-> ModuleName]
    /\ cancelled /\ solved # {} /\ unsolved # <<>>

\* the run is over: every step of run() takes at most this many iterations
Fuel == 200

\* the nodes that are placeholders when the solver is constructed
Placeholders == {n \in Nodes : Arena0[n].v = "Blocked"}

\* what a run leaves behind: which of the first n constraints are solved, and
\* what every placeholder and the blocked pack stand for at the end (a node the
\* run allocated is described by its variant)
FinalState(s, n) ==
    [solved |-> {c \in 1..n : \A k \in 1..Len(s.unsolved) : s.unsolved[k] # c},
     types |-> [p \in Placeholders |->
                   LET t == follow(s.ty, p)
                   IN <<IF t \in FixedNodes THEN t ELSE "fresh", s.ty[t].v>>],
     pack |-> s.tp[followPack(s.tp, "RP")].v]

\* the constraints the solver was constructed with
Given == SubSeq(cons, 1, Len(cons) - npush)

\* C12: the final state of run() is the same for every ordering of unsolved.
\* With a unifier that succeeds and leaves no incomplete subtype the run is a
\* function of the constructed solver and of the order, and the claim is that
\* whatever order randomize(seed) has left, run() ends in the state it ends in
\* from the order of construction.
C12_OrderIrrelevant ==
    (Returned /\ errs = <<>> /\ npush = 0)
        => FinalState(Cur, Len(Given))
             = FinalState(runFrom(ConstructedFrom(Given), FALSE, 1, FALSE, Fuel), Len(Given))

\* the number of placeholder nodes of an arena (the model has no LocalType)
PlaceholderCount(tys) == Cardinality({n \in Nodes : tys[n].v \in {"Blocked", "Pending"}})

\* C13: across a successful dispatch (the step that adds a constraint to the
\* solved ones) the number of placeholder nodes becomes strictly smaller.
C13_PlaceholdersDecrease ==
    [][solved' # solved => PlaceholderCount(ty') < PlaceholderCount(ty)]_vars

\* the constraint con mentions the free type t in one of its operands
Mentions(con, t) ==
    \E x \in {con.a, con.b, con.r} \cup {con.args[k] : k \in 1..Len(con.args)} :
        t \in freeTypesIn(ty, x, Cardinality(Nodes))

\* the unsolved PrimitiveType constraints whose type is still free
FreePrimitives ==
    {c \in {unsolved[k] : k \in 1..Len(unsolved)} :
        cons[c].kind = "PrimitiveType" /\ ty[follow(ty, cons[c].a)].v = "Free"}

\* C14: a PrimitiveType constraint on a free type blocks in a normal pass while
\* the type's reference count is above 1; and once no other unsolved constraint
\* mentions the type, the constraint is not blocked, so that the next normal
\* pass dispatches it and no force pass is needed.
C14_PrimitiveWaits ==
    /\ [][(/\ AtDispatch /\ ~force
           /\ unsolved[i] \in FreePrimitives
           /\ refs[cons[unsolved[i]].a] > 1)
            => /\ ~lastCall'.ok
               /\ unsolved[i] \in Waiting(blocked', TyKey(follow(ty, cons[unsolved[i]].a)))
               /\ ty' = ty]_vars
    /\ [](pc = "pass"
            => \A c \in FreePrimitives :
                  (\A k \in 1..Len(unsolved) :
                      unsolved[k] # c => ~Mentions(cons[unsolved[k]], follow(ty, cons[c].a)))
                  => bc[c] = 0)

\* the expansions dispatched so far: the solved TypeAliasExpansion constraints
\* of an alias with type parameters
Expansions ==
    {c \in solved : /\ cons[c].kind = "TypeAliasExpansion"
                    /\ Arena0[cons[c].a].v = "Pending"
                    /\ Arena0[cons[c].a].alias \in DOMAIN TypeFuns
                    /\ TypeFuns[Arena0[cons[c].a].alias].typeParams # <<>>}

\* the saturated signature of the pending expansion constraint c is about
SignatureOf(c) ==
    LET petv == Arena0[cons[c].a]
    IN InstantiationSignature(TypeFuns[petv.alias], saturateArguments(TypeFuns[petv.alias], petv.mem, <<>>).typeArguments)

\* C15: two dispatched TypeAliasExpansion constraints whose saturated
\* signatures are equal have bound their targets to the same node, whichever
\* exit the first of them left through, and when the alias cache holds an
\* instantiation for the signature that instantiation is the node.
C15_SameInstantiation ==
    \A c \in Expansions :
        /\ ty[cons[c].a].v = "Bound"
        /\ \A d \in Expansions :
               SignatureOf(c) = SignatureOf(d) => ty[cons[c].a].to = ty[cons[d].a].to
        /\ \A e \in instantiatedAliases :
               e[1] = SignatureOf(c) => ty[cons[c].a].to = e[2]

\* the pass is about to dispatch the expansion of a parametric alias whose
\* saturated arguments are the alias's own generic parameters
AtIdentityExpansion ==
    /\ AtDispatch
    /\ cons[unsolved[i]].kind = "TypeAliasExpansion"
    /\ LET petv == ty[follow(ty, cons[unsolved[i]].a)]
       IN /\ petv.v = "Pending"
          /\ petv.alias \in DOMAIN TypeFuns
          /\ TypeFuns[petv.alias].typeParams # <<>>
          /\ saturateArguments(TypeFuns[petv.alias], petv.mem, <<>>).typeArguments = TypeFuns[petv.alias].typeParams

OtherExpansionsInBody(a, args) ==
    {p \in visited(ty, {TypeFuns[a].type}, {}, TRUE) :
        /\ ty[p].v = "Pending" /\ ty[p].alias = a
        /\ saturateArguments(TypeFuns[a], ty[p].mem, <<>>).typeArguments # args}

\* the pass is about to dispatch the expansion of an alias whose defined type
\* holds a pending expansion of the same alias with other saturated arguments
AtRecursiveExpansion ==
    /\ AtDispatch
    /\ cons[unsolved[i]].kind = "TypeAliasExpansion"
    /\ LET petv == ty[follow(ty, cons[unsolved[i]].a)]
       IN /\ petv.v = "Pending"
          /\ petv.alias \in DOMAIN TypeFuns
          /\ TypeFuns[petv.alias].typeParams # <<>>
          /\ OtherExpansionsInBody(petv.alias, saturateArguments(TypeFuns[petv.alias], petv.mem, <<>>).typeArguments) # {}

FirstVariables == {"L1", "L3"}

\* C18: the loop variables of a for-in loop over a next function returning
\* (number?, string) are bound to (number, string), whether the next function
\* comes from the iteratee's __iter metamethod or is given explicitly: the
\* optional nil is stripped from the first result on both paths.
C18_NilStripped ==
    /\ \A v \in FirstVariables : ty[v].v = "Bound" => follow(ty, v) = "number"
    /\ \A v \in {"L2", "L4"} : ty[v].v = "Bound" => follow(ty, v) = "string"

\* the pass is about to dispatch a FunctionCall whose callee follows to a
\* node of variant v
AtCallOf(v) ==
    /\ AtDispatch
    /\ cons[unsolved[i]].kind = "FunctionCall"
    /\ ty[follow(ty, cons[unsolved[i]].a)].v = v

\* the dispatch of the call has bound the result pack to pack and unblocked
\* it, and has done nothing else: no callee was resolved, nothing was unified,
\* allocated, reported or pushed
BoundWithoutResolution(pack) ==
    LET c == cons[unsolved[i]]
    IN /\ lastCall'.handled /\ lastCall'.ok
       /\ unsolved[i] \in solved'
       /\ tp' = [tp EXCEPT ![c.rp] = BoundPackTo(pack)]
       /\ \E r \in released' : r[1] = TpKey(c.rp)
       /\ selected' = {}
       /\ ty' = ty /\ nfresh' = nfresh /\ errs' = errs /\ cons' = cons

\* the members of the union or intersection t all follow to one node
Uniform(t) ==
    /\ ty[t].v \in {"Union", "Intersection"} /\ ty[t].mem # <<>>
    /\ \A k \in 1..Len(ty[t].mem) : follow(ty, ty[t].mem[k]) = follow(ty, ty[t].mem[1])

\* C19: a FunctionCall whose callee follows to the error type binds the result
\* pack to the error pack, one whose callee follows to never binds it to the
\* never pack; both dispatches succeed, unblock the result pack and resolve
\* and unify nothing.  A union or intersection callee whose members all follow
\* to the same node is replaced by that node before the overload is selected.
C19_ErrorNeverCollapse ==
    [][/\ AtCallOf("Error") => BoundWithoutResolution("errorPack")
       /\ AtCallOf("Never") => BoundWithoutResolution("neverPack")
       /\ \A t \in Nodes :
            (/\ AtDispatch /\ cons[unsolved[i]].kind = "FunctionCall"
             /\ follow(ty, cons[unsolved[i]].a) = t /\ lastCall'.ok
             /\ ty[t].v \in {"Union", "Intersection"})
                => selected' = {IF Uniform(t) THEN follow(ty, ty[t].mem[1]) ELSE t}]_vars

\* the calls of the error type, of never and of Fn | Fn have all been
\* dispatched: the result packs are bound to the error and the never pack, and
\* the overload of the third call was selected from Fn
C19_Witness ==
    /\ tp["RP2"] = BoundPackTo("errorPack")
    /\ tp["RP3"] = BoundPackTo("neverPack")
    /\ lastCall.ok /\ cons[lastCall.c].a = "UFn" /\ selected = {"Fn"}

\* the pass is about to dispatch a HasIndexer whose subject is a free type and
\* whose index type is not blocked
AtHasIndexerOfFree ==
    /\ AtDispatch
    /\ cons[unsolved[i]].kind = "HasIndexer"
    /\ ty[follow(ty, cons[unsolved[i]].a)].v = "Free"
    /\ ~isBlockedTy(Cur, cons[unsolved[i]].b)

writeLookup(t) == lookupTableProp(Cur, 0, t, "LValue", {}, [ok |-> TRUE, push |-> FALSE, red |-> NoReduction])

readAfterWrite(t) ==
    lookupTableProp(writeLookup(t).s, 0, t, "RValue", {}, [ok |-> TRUE, push |-> FALSE, red |-> NoReduction])

\* C21: for every free table, whatever the state of its property, the type an
\* l-value lookup of the property returns is the type the r-value lookup that
\* follows it returns.
C21_WriteThenRead ==
    \A t \in Nodes :
        (ty[t].v = "FreeTable" /\ nfresh + 2 <= Len(FreshNames))
            => readAfterWrite(t).result = writeLookup(t).result

\* the pass is about to dispatch an Iterable in force mode
AtForcedIterable == AtDispatch /\ force /\ cons[unsolved[i]].kind = "Iterable"

\* C22: a forced dispatch of an Iterable reaches no assertion that fails,
\* whatever the shape of the iteratee, and for a free table as the iteratee it
\* reports that the table is not iterable and pushes the Unpack of the error
\* type into the loop variables.
C22_ForcedIterableTotal ==
    [][AtForcedIterable =>
          LET c == cons[unsolved[i]]
          IN /\ asserted' = asserted
             /\ ty[follow(ty, c.args[1])].v = "FreeTable"
                   => /\ errs' # errs
                      /\ Len(cons') = Len(cons) + 1
                      /\ cons'[Len(cons')].kind = "Unpack"
                      /\ cons'[Len(cons')].rp = c.rp
                      /\ tp'[cons'[Len(cons')].sp] = [PackNode("Variadic") EXCEPT !.to = "error"]]_vars

\* C23: every entry of errors carries the current module name and a location
\* that is not the default one, the entries left by the lookups of __call and
\* __iter included.
C23_ErrorsTagged ==
    \A k \in 1..Len(errs) :
        errs[k].moduleName = ModuleName /\ errs[k].location # DefaultLocation

\* C24: inheritBlocks(source, addition) makes every constraint that waits on
\* source wait on addition as well and increments its counter once for each
\* edge that is new; the entry of source, every other entry of blocked and
\* everything else stay as they are, and with nothing waiting on source
\* nothing changes at all.
C24_InheritBlocksFrame ==
    \A source, addition \in 1..Len(cons) :
        LET r == inheritBlocks(Cur, source, addition)
            w == Waiting(blocked, CKey(source))
            new == {c \in w : <<CKey(addition), c>> \notin blocked}
        IN /\ w \subseteq Waiting(r.blocked, CKey(addition))
           /\ r.blocked = blocked \cup {<<CKey(addition), c>> : c \in w}
           /\ r.bc = [c \in DOMAIN bc |-> IF c \in new THEN bc[c] + 1 ELSE bc[c]]
           /\ r = [Cur EXCEPT !.blocked = r.blocked, !.bc = r.bc]
           /\ w = {} => r = Cur

\* a dispatch has just pushed a constraint, and a constraint that waited on the
\* dispatched one waits on the pushed one, with a positive counter
C24_Witness ==
    /\ lastCall.handled /\ lastCall.pushed = 1
    /\ \E w \in 1..Len(cons) :
          /\ lastCall.c \in cons[w].deps
          /\ <<CKey(Len(cons)), w>> \in blocked
          /\ bc[w] > 0

\* the nodes of the Bound chain that starts at t, and whether the chain comes
\* back to one of them
RECURSIVE boundChain(_, _, _)
boundChain(tys, t, nodes) ==
    IF t \in nodes THEN [nodes |-> nodes, revisits |-> TRUE]
    ELSE IF tys[t].v = "Bound" THEN boundChain(tys, tys[t].to, nodes \cup {t})
    ELSE [nodes |-> nodes \cup {t}, revisits |-> FALSE]

\* the types that are a key of blocked or the start of a Bound chain
ChainStarts == {t \in Nodes : ty[t].v = "Bound" \/ Waiting(blocked, TyKey(t)) # {}}

\* the solver with the last node of t's chain bound to u
Closed(t, u) ==
    LET last == CHOOSE n \in boundChain(ty, t, {}).nodes : ty[n].v # "Bound"
    IN [Cur EXCEPT !.ty[last] = BoundTo(u)]

\* C25: unblock(ty) releases what waits on ty and on every node of the Bound
\* chain that starts at ty, each node once: the entries of those keys are
\* erased, each waiting constraint's counter goes down by one for each of its
\* erased edges, and nothing else changes.  On a chain that comes back to one
\* of its nodes it raises an internal error.
C25_UnblockChain ==
    \A t \in ChainStarts :
        LET chain == boundChain(ty, t, {})
            keys == {TyKey(n) : n \in chain.nodes}
            r == unblockTy(Cur, t)
        IN /\ ~chain.revisits
           /\ ~r.ice
           /\ r.blocked = {q \in blocked : q[1] \notin keys}
           /\ r.bc = [c \in DOMAIN bc |->
                         bc[c] - Cardinality({q \in blocked : q[1] \in keys /\ q[2] = c})]
           /\ r.released = {<<k, Waiting(blocked, k)>> : k \in keys}
           /\ r = [Cur EXCEPT !.blocked = r.blocked, !.bc = r.bc, !.released = r.released,
                              !.asserted = r.asserted]
           /\ \A u \in chain.nodes : unblockTy(Closed(t, u), t).ice

\* a dispatch has bound a type and unblocked it and the type it is bound to,
\* and a constraint waited on the bound type
C25_Witness ==
    \E r1, r2 \in released :
        /\ r1[1].k = "ty" /\ r2[1].k = "ty" /\ r1[1] # r2[1]
        /\ ty[r1[1].n] = BoundTo(r2[1].n)
        /\ r1[2] # {}

\* C26: a force pass ends at its first successful dispatch and reports
\* progress: it removes that one constraint from unsolved and no other, and the
\* pass that follows it is a normal pass from the start of the list.
C26_ForcePassStops ==
    /\ [](force => passCount = 0)
    /\ [](prevPass.mode = "force" => prevPass.n <= 1)
    /\ [][(AtDispatch /\ force /\ lastCall'.ok /\ pc' # "ice")
             => /\ pc' = "pass" /\ ~force' /\ i' = 1
                /\ prevPass' = [mode |-> "force", n |-> 1]
                /\ solved' = solved \cup {unsolved[i]}
                /\ unsolved[i] \notin solved
                /\ \A k \in 1..Len(unsolved) :
                      k # i => \E j \in 1..Len(unsolved') : unsolved'[j] = unsolved[k]]_vars

\* a force pass has just dispatched a constraint, and a normal pass is at the
\* start of the list that is left
C26_Witness ==
    /\ prevPass = [mode |-> "force", n |-> 1]
    /\ lastCall.force /\ lastCall.ok
    /\ pc = "pass" /\ ~force /\ i = 1 /\ unsolved # <<>>

\* a normal pass has reached the end of the list
AtNormalPassEnd == pc = "pass" /\ ~force /\ i > Len(unsolved)

\* C28: run() begins with a normal pass; a force pass begins only at the end
\* of a normal pass that dispatched nothing, and the end of a normal pass that
\* dispatched a constraint is followed at once by the start of a normal pass.
C28_NormalPassFirst ==
    /\ [][pc = "init" => ~force']_vars
    /\ [][(~force /\ force') => (AtNormalPassEnd /\ passCount = 0 /\ ~progress)]_vars
    /\ [][(AtNormalPassEnd /\ passCount > 0)
             => /\ pc' = "pass" /\ ~force' /\ i' = 1
                /\ prevPass' = [mode |-> "normal", n |-> passCount]]_vars

\* after the dispatch of a constraint a normal pass has dispatched nothing, and
\* a force pass has begun
C28_Witness ==
    /\ pc = "pass" /\ force
    /\ prevPass = [mode |-> "normal", n |-> 0]
    /\ solved # {}

\* q2 holds the elements of q1, each as often as q1 does
IsPermutation(q1, q2) ==
    /\ Len(q1) = Len(q2)
    /\ \A x \in {q1[k] : k \in 1..Len(q1)} \cup {q2[k] : k \in 1..Len(q2)} :
          Cardinality({k \in 1..Len(q1) : q1[k] = x}) = Cardinality({k \in 1..Len(q2) : q2[k] = x})

\* the step is a call of randomize
Randomized == pc = "init" /\ pc' = "shuffled"

\* C27: randomize(seed) leaves in unsolved a permutation of what it found, and
\* an empty list empty; the list it leaves is a function of the list and the
\* seed alone; every swap index lies in [0, i]; and the generator is
\* rng * 1664525 + 1013904223 modulo 2^32, which from 0 runs through
\* 0x3C6EF35F, 0x47502932, 0xD1CCF6E9, 0xAAF95334.
C27_Randomize ==
    /\ [][Randomized =>
             /\ IsPermutation(unsolved, unsolved')
             /\ unsolved = <<>> => unsolved' = <<>>
             /\ \E seed \in 0..MaxSeed : unsolved' = randomize(unsolved, seed)]_vars
    /\ \A seed \in 0..MaxSeed : \A m \in 1..(MaxInit + 1) :
          /\ rngMod(Rng(seed), m) \in 0..(m - 1)
          /\ rngMod(rngNext(Rng(seed)), m) \in 0..(m - 1)
          /\ rngMod(Rng(seed), m) = seed % m
    /\ rngNext(Rng(0)) = <<15470, 62303>>
    /\ rngNext(<<15470, 62303>>) = <<18256, 10546>>
    /\ rngNext(<<18256, 10546>>) = <<53708, 63209>>
    /\ rngNext(<<53708, 63209>>) = <<43769, 21300>>

\* randomize has left the three constraints of the run in another order
C27_Witness ==
    /\ pc = "shuffled" /\ Len(unsolved) = 3
    /\ unsolved # <<1, 2, 3>>

\* C29: a handler that returns false in a normal pass has blocked its
\* constraint on what it misses: the constraint's counter is positive when
\* tryDispatch returns.
C29_FalseMeansBlocked ==
    [][(AtDispatch /\ ~force /\ lastCall'.handled /\ ~lastCall'.ok /\ pc' # "ice")
          => bc'[unsolved[i]] > 0]_vars

\* the constraints unify has pushed for an incomplete subtype
UnifyPushed == {p \in 1..Len(cons) : p > Len(cons) - npush /\ cons[p].kind = "Subtype"}

\* the dispatch that is about to happen pushes a constraint from unify
UnifyPushes ==
    /\ AtDispatch /\ pc' # "ice"
    /\ Len(cons') = Len(cons) + 1 /\ cons'[Len(cons')].kind = "Subtype"

\* C30: a constraint that unify pushes for an incomplete subtype is appended
\* to unsolved, and every constraint that waits on the calling constraint waits
\* on the pushed one as well; the edge stays until the pushed constraint is
\* solved, and a constraint that waits on a pushed constraint is not dispatched
\* in a normal pass.
C30_PushedInherits ==
    /\ [][UnifyPushes =>
             LET p == Len(cons')
             IN /\ unsolved' # <<>> /\ unsolved'[Len(unsolved')] = p
                /\ \A d \in Waiting(blocked, CKey(unsolved[i])) :
                      <<CKey(p), d>> \in blocked' /\ bc'[d] > 0]_vars
    /\ [][\A p \in UnifyPushed : \A d \in Waiting(blocked, CKey(p)) :
             (p \notin solved' /\ pc' # "ice") => <<CKey(p), d>> \in blocked']_vars
    /\ [][(AtDispatch /\ ~force)
             => \A p \in UnifyPushed : unsolved[i] \notin Waiting(blocked, CKey(p))]_vars

\* a normal pass is at a constraint whose dependencies are all solved and
\* that waits on a constraint unify pushed, which is still unsolved
C30_Witness ==
    /\ pc = "pass" /\ ~force /\ i <= Len(unsolved)
    /\ cons[unsolved[i]].deps # {} /\ cons[unsolved[i]].deps \subseteq solved
    /\ \E p \in UnifyPushed :
          /\ p \notin solved
          /\ unsolved[i] \in Waiting(blocked, CKey(p))

\* the subtype constraints whose operands are not blocked: the calls
\* unify(constraint, subType, superType) the solver can make in this state
Unifiable ==
    {c \in 1..Len(cons) : /\ cons[c].kind = "Subtype"
                          /\ ~isBlockedTy(Cur, cons[c].a) /\ ~isBlockedTy(Cur, cons[c].b)}

\* C31: on a hard failure of the unifier, unify appends one OccursCheckFailed
\* diagnostic at the constraint's location, returns false, records no
\* upper-bound contributor and unblocks neither operand; on success it
\* unblocks both operands, reports nothing and returns true.
C31_UnifyVerdict ==
    \A c \in Unifiable : \A push \in BOOLEAN :
        LET sub == cons[c].a
            sup == cons[c].b
            failed == unify(Cur, c, sub, sup, [ok |-> FALSE, push |-> push, red |-> NoReduction])
            passed == unify(Cur, c, sub, sup, [ok |-> TRUE, push |-> push, red |-> NoReduction])
        IN /\ ~failed.ok
           /\ failed.s.errs = Append(errs, Reported("OccursCheckFailed"))
           /\ failed.s.upperBoundContributors = upperBoundContributors
           /\ failed.s.released = {}
           /\ \A q \in blocked : q \in failed.s.blocked
           /\ \A d \in DOMAIN bc : failed.s.bc[d] >= bc[d]
           /\ passed.ok
           /\ passed.s.errs = errs
           /\ {TyKey(sub), TyKey(sup)} \subseteq {r[1] : r \in passed.s.released}
           /\ Waiting(passed.s.blocked, TyKey(sub)) = {}
           /\ Waiting(passed.s.blocked, TyKey(sup)) = {}

\* the unification of a subtype constraint has just failed: the diagnostic is
\* the last entry of errors, and a constraint still waits on an operand
C31_Witness ==
    /\ lastCall.handled /\ cons[lastCall.c].kind = "Subtype"
    /\ errs # <<>> /\ errs[Len(errs)] = Reported("OccursCheckFailed")
    /\ \E t \in {cons[lastCall.c].a, cons[lastCall.c].b} : Waiting(blocked, TyKey(t)) # {}

\* the Subtype and PackSubtype constraints of the solver
SubtypeLike == {c \in 1..Len(cons) : cons[c].kind \in {"Subtype", "PackSubtype"}}

\* the key a Subtype or PackSubtype constraint is blocked on: its first blocked
\* side, or none
BlockedSide(c) ==
    IF cons[c].kind = "Subtype"
    THEN IF isBlockedTy(Cur, cons[c].a) THEN {TyKey(follow(ty, cons[c].a))}
         ELSE IF isBlockedTy(Cur, cons[c].b) THEN {TyKey(follow(ty, cons[c].b))}
         ELSE {}
    ELSE IF isBlockedTp(Cur, cons[c].sp) THEN {TpKey(cons[c].sp)}
         ELSE IF isBlockedTp(Cur, cons[c].rp) THEN {TpKey(cons[c].rp)}
         ELSE {}

\* C32: the dispatch of a Subtype or PackSubtype constraint returns false,
\* with the constraint blocked on the blocked side and nothing else changed,
\* when a side is blocked; otherwise it calls unify once and returns true
\* whatever the verdict, and a dispatch that reports a failed unification still
\* removes the constraint from unsolved.
C32_SubtypeDispatch ==
    /\ [][\A c \in SubtypeLike : \A f \in BOOLEAN : \A ch \in Choices :
             LET r == dispatchKind(Cur, c, f, ch)
             IN IF BlockedSide(c) # {}
                THEN /\ ~r.ok
                     /\ r.s.blocked = blocked \cup {<<k, c>> : k \in BlockedSide(c)}
                     /\ r.s.ty = ty /\ r.s.tp = tp /\ r.s.errs = errs
                     /\ r.s.cons = cons /\ r.s.released = {}
                ELSE /\ r.ok
                     /\ Len(r.s.errs) = Len(errs) + (IF ch.ok THEN 0 ELSE 1)]_vars
    /\ [][(/\ AtDispatch /\ unsolved[i] \in SubtypeLike /\ BlockedSide(unsolved[i]) = {}
           /\ Len(errs') > Len(errs) /\ pc' # "ice")
             => /\ lastCall'.ok /\ unsolved[i] \in solved'
                /\ \A k \in 1..Len(unsolved') : unsolved'[k] # unsolved[i]]_vars

\* a PackSubtype constraint whose unification failed has been dispatched and
\* is solved, and another one is blocked on its blocked side
C32_Witness ==
    /\ lastCall.handled /\ lastCall.ok /\ lastCall.c \in SubtypeLike
    /\ cons[lastCall.c].kind = "PackSubtype"
    /\ errs # <<>> /\ errs[Len(errs)] = Reported("OccursCheckFailed")
    /\ lastCall.c \in solved
    /\ \E c \in SubtypeLike : BlockedSide(c) # {} /\ \A k \in BlockedSide(c) : <<k, c>> \in blocked

\* the TypeAliasExpansion constraints of the solver
AliasConstraints == {c \in 1..Len(cons) : cons[c].kind = "TypeAliasExpansion"}

\* those that are still to be dispatched
UnsolvedAliasConstraints == {c \in AliasConstraints : \E k \in 1..Len(unsolved) : unsolved[k] = c}

\* C33: every dispatch of a TypeAliasExpansion constraint returns true and
\* leaves the target not a pending expansion, with no constraint waiting on
\* it; an unknown alias name reports UnknownSymbol and binds the target to the
\* error-recovery type, a positive occurs check on a parametric alias reports
\* OccursCheckFailed and binds the target to the error-recovery type, and a
\* target that is resolved already is unblocked and nothing else changes.
C33_ExpansionTotal ==
    \A c \in UnsolvedAliasConstraints :
        LET target == cons[c].a
            petv == ty[follow(ty, target)]
            r == dispatchKind(Cur, c, FALSE, [ok |-> TRUE, push |-> FALSE, red |-> NoReduction])
            boundToError == r.s.ty = [ty EXCEPT ![target] = BoundTo("error")]
        IN /\ r.ok
           /\ r.s.ty[target].v # "Pending"
           /\ Waiting(r.s.blocked, TyKey(target)) = {}
           /\ r.s.asserted = asserted
           /\ petv.v # "Pending"
                => /\ r.s = unblockTy(Cur, target)
                   /\ r.s.ty = ty /\ r.s.errs = errs /\ r.s.cons = cons
           /\ (petv.v = "Pending" /\ petv.alias \notin DOMAIN TypeFuns)
                => /\ r.s.errs = Append(errs, Reported("UnknownSymbol"))
                   /\ boundToError
           /\ (/\ petv.v = "Pending" /\ petv.alias \in DOMAIN TypeFuns
               /\ TypeFuns[petv.alias].typeParams # <<>>
               /\ occursCheck(ty, target, TypeFuns[petv.alias].type))
                => /\ r.s.errs = Append(errs, Reported("OccursCheckFailed"))
                   /\ boundToError

\* the dispatch of a TypeAliasExpansion constraint has just returned: its
\* target is bound, either to a type that is itself still to be expanded,
\* which has released a constraint that waited on the target, or with a
\* diagnostic of the kinds above in errors
C33_Witness ==
    /\ lastCall.handled /\ lastCall.ok /\ lastCall.c \in AliasConstraints
    /\ ty[cons[lastCall.c].a].v = "Bound"
    /\ \/ /\ ty[follow(ty, cons[lastCall.c].a)].v = "Pending"
          /\ \E r \in released : r[1] = TyKey(cons[lastCall.c].a) /\ r[2] # {}
       \/ \E k \in 1..Len(errs) : errs[k] \in {Reported("UnknownSymbol"), Reported("OccursCheckFailed")}

\* the sizes of the result of the latest call of saturateArguments are the
\* alias's, and none of its assertions has failed
SaturatedSizes ==
    /\ Len(saturated.result.typeArguments) = Len(saturated.fn.typeParams)
    /\ Len(saturated.result.packArguments) = Len(saturated.fn.typePackParams)
    /\ saturated.result.asserted = {}

\* the type slots that the raw arguments and the defaults left unfilled hold
\* the error-recovery type
MissingTypesAreErrors ==
    \A k \in (saturated.result.typesFilled + 1)..Len(saturated.fn.typeParams) :
        saturated.result.typeArguments[k] = "error"

UnsolvedCalls ==
    {c \in 1..Len(cons) : /\ cons[c].kind = "FunctionCall"
                          /\ \E k \in 1..Len(unsolved) : unsolved[k] = c}

\* the callee of the call c is blocked or has unresolved constraints
CalleeWaits(c) ==
    LET fn == follow(ty, cons[c].a)
    IN isBlockedTy(Cur, fn) \/ hasUnresolvedConstraints(refs, fn)

\* the keys of the blocked arguments of the call c: the blocked types of the
\* flattened head and the tail, if it is blocked
BlockedArguments(c) ==
    {TyKey(follow(ty, cons[c].args[k])) :
        k \in {j \in 1..Len(cons[c].args) : isBlockedTy(Cur, cons[c].args[j])}}
    \cup (IF cons[c].tail # NoNode /\ isBlockedTp(Cur, cons[c].tail)
          THEN {TpKey(cons[c].tail)} ELSE {})

\* the dispatch of the call c returns false, changes no type pack and adds
\* the block edges from keys to c and no other
BlocksOn(c, keys) ==
    \A ch \in Choices :
        LET r == dispatchKind(Cur, c, FALSE, ch)
        IN /\ ~r.ok
           /\ r.s.tp = tp /\ r.s.ty = ty
           /\ r.s.blocked = blocked \cup {<<k, c>> : k \in keys}

\* C35: a FunctionCall constraint returns false and leaves the result pack as
\* it is when its callee is blocked or has unresolved constraints, blocked on
\* the callee, and when an argument of the flattened head or the tail is
\* blocked, blocked on every blocked argument.
C35_CallBlocks ==
    \A c \in UnsolvedCalls :
        /\ CalleeWaits(c) => BlocksOn(c, {TyKey(follow(ty, cons[c].a))})
        /\ (~CalleeWaits(c) /\ BlockedArguments(c) # {}) => BlocksOn(c, BlockedArguments(c))

\* C35, amended: the same, the blocked arguments being looked at only when the
\* callee is neither the error type nor never; a call of the error type or of
\* never binds the result pack and returns true whatever its arguments are.
C35_CallBlocksAmended ==
    \A c \in UnsolvedCalls :
        LET fn == follow(ty, cons[c].a)
        IN /\ CalleeWaits(c) => BlocksOn(c, {TyKey(fn)})
           /\ (~CalleeWaits(c) /\ ty[fn].v \notin {"Error", "Never"} /\ BlockedArguments(c) # {})
                => BlocksOn(c, BlockedArguments(c))
           /\ (~CalleeWaits(c) /\ ty[fn].v \in {"Error", "Never"})
                => \A ch \in Choices :
                      LET r == dispatchKind(Cur, c, FALSE, ch)
                      IN r.ok /\ r.s.tp[cons[c].rp].v = "BoundPack"

\* a call with several blocked arguments has been dispatched and has returned
\* false: it waits on each of them, and its result pack is still blocked
C35_Witness ==
    /\ lastCall.handled /\ ~lastCall.ok /\ lastCall.c \in UnsolvedCalls
    /\ Cardinality(BlockedArguments(lastCall.c)) > 2
    /\ \A k \in BlockedArguments(lastCall.c) : <<k, lastCall.c>> \in blocked
    /\ tp[cons[lastCall.c].rp].v = "BlockedPack"

\* the types no handler may change: the persistent types and those of another
\* arena
Immutable == Persistent \cup Foreign

\* the constraint the pass is at is a Name constraint that names an immutable
\* type, or the expansion of an alias whose body, with the arguments in the
\* parameters' places, is an immutable type
NamesImmutable ==
    /\ AtDispatch /\ cons[unsolved[i]].kind = "Name"
    /\ ~isBlockedTy(Cur, cons[unsolved[i]].a)
    /\ follow(ty, cons[unsolved[i]].a) \in Immutable

ExpandsToImmutable ==
    /\ AtDispatch /\ cons[unsolved[i]].kind = "TypeAliasExpansion"
    /\ ty[cons[unsolved[i]].a].v = "Pending"
    /\ cons[unsolved[i]].a \in {"PF", "PI1", "PI2", "PI4"}

\* C36: no dispatch changes a persistent type or a type of another arena; a
\* Name constraint on such a type is dispatched, with success, with no change
\* to any type; the expansion of an alias whose substituted body is such a
\* type binds the target to it and changes no other type, so that no
\* instantiated parameter is stamped on it.
C36_ImmutableTypes ==
    /\ [][\A n \in Immutable : ty'[n] = ty[n]]_vars
    /\ [][NamesImmutable => (pc' # "ice" /\ lastCall'.ok /\ ty' = ty /\ tp' = tp)]_vars
    /\ [][ExpandsToImmutable =>
             LET target == cons[unsolved[i]].a
             IN /\ pc' # "ice" /\ lastCall'.ok
                /\ ty'[target].v = "Bound" /\ ty'[target].to \in Immutable
                /\ ty' = [ty EXCEPT ![target] = BoundTo(ty'[target].to)]
                /\ ty'[ty'[target].to].instantiatedTypeParams = <<>>]_vars

\* the table of another module has been named and Far<number> has then been
\* expanded to it: the target is bound to the table, and the table is as the
\* other module left it
C36_Witness ==
    /\ lastCall.handled /\ lastCall.ok /\ cons[lastCall.c].kind = "TypeAliasExpansion"
    /\ cons[lastCall.c].a = "PF"
    /\ \E c \in solved : cons[c].kind = "Name" /\ cons[c].a = "XT"
    /\ ty["PF"] = BoundTo("XT")
    /\ ty["XT"] = Arena0["XT"]

\* the members of a union, of the unions in it and so on; never has none
RECURSIVE leavesOf(_, _, _)
leavesOf(tys, t, fuel) ==
    LET f == follow(tys, t)
    IN IF fuel = 0 \/ f = "never" THEN {}
       ELSE IF tys[f].v = "Union"
       THEN UNION {leavesOf(tys, tys[f].mem[k], fuel - 1) : k \in 1..Len(tys[f].mem)}
       ELSE {f}

Leaves(tys, t) == leavesOf(tys, t, 4)

\* the unbound locals
Locals == {n \in Nodes : ty[n].v = "Local"}

\* the dispatch at hand reaches the handler's assignments: an Unpack1; an
\* Unpack neither of whose packs is blocked; an Iterable over a table with an
\* indexer that is not a free table of a normal pass
Unpacks1 == AtDispatch /\ cons[unsolved[i]].kind = "Unpack1"

UnpacksPack ==
    /\ AtDispatch /\ cons[unsolved[i]].kind = "Unpack"
    /\ ~isBlockedTp(Cur, cons[unsolved[i]].sp) /\ ~isBlockedTp(Cur, cons[unsolved[i]].rp)

IteratesIndexer ==
    /\ AtDispatch /\ cons[unsolved[i]].kind = "Iterable"
    /\ Len(cons[unsolved[i]].args) > 0
    /\ \A k \in 1..Len(cons[unsolved[i]].args) : ~isBlockedTy(Cur, cons[unsolved[i]].args[k])
    /\ LET iteratorTy == ty[follow(ty, cons[unsolved[i]].args[1])]
       IN IsTable(iteratorTy) /\ iteratorTy.idxK # NoNode /\ (iteratorTy.v = "FreeTable" => force)

\* the result types the dispatch at hand assigns to, as a sequence
AssignedTo ==
    IF Unpacks1 THEN <<follow(ty, cons[unsolved[i]].r)>>
    ELSE IF UnpacksPack \/ IteratesIndexer
    THEN [k \in 1..Len(tp[followPack(tp, cons[unsolved[i]].rp)].head) |->
             follow(ty, tp[followPack(tp, cons[unsolved[i]].rp)].head[k])]
    ELSE <<>>

\* what the dispatch at hand assigns to the local n: nil to a result the source
\* pack has no type for
AssignedFrom(n) ==
    IF Unpacks1 THEN Leaves(ty, cons[unsolved[i]].a)
    ELSE IF UnpacksPack
    THEN LET sources == packHead(tp, cons[unsolved[i]].sp, Len(AssignedTo))
         IN UNION {IF k <= Len(sources) THEN Leaves(ty, sources[k]) ELSE {"nil"} :
                      k \in {j \in 1..Len(AssignedTo) : AssignedTo[j] = n}}
    ELSE {}

AssignmentsTo(n) == Cardinality({k \in 1..Len(AssignedTo) : AssignedTo[k] = n})

\* C37: the blockCount of an unbound LocalType is positive between any two
\* handler calls, so it never becomes negative and no unbound local with
\* blockCount 0 is left behind; a dispatch lowers it by one for each
\* assignment of the Unpack, Unpack1 or Iterable constraint to the local, the
\* results filled with nil included, and by nothing otherwise; the local is
\* bound, to the domain accumulated from its assignments, exactly when the
\* count reaches 0.
C37_BlockCount ==
    /\ [](\A n \in Locals : ty[n].blockCount > 0)
    /\ [][\A n \in Locals :
             LET left == ty[n].blockCount - AssignmentsTo(n)
             IN /\ left >= 0
                /\ ty'[n].v = IF left = 0 THEN "Bound" ELSE "Local"
                /\ left > 0 => ty'[n].blockCount = left
                /\ AssignmentsTo(n) = 0 => ty'[n] = ty[n]
                /\ AssignmentsTo(n) > 0 =>
                      LET domain == IF left = 0 THEN ty'[n].to ELSE ty'[n].domain
                      IN IF IteratesIndexer
                         THEN Leaves(ty, ty[n].domain) \subseteq Leaves(ty', domain)
                         ELSE Leaves(ty', domain) = Leaves(ty, ty[n].domain) \cup AssignedFrom(n)]_vars

\* local a, b, c = f() has been unpacked from the two results of f: c is bound
\* to nil, and a, with two assignments still to come, has the first result as
\* its domain and is unbound
C37_Witness ==
    /\ lastCall.handled /\ lastCall.ok /\ cons[lastCall.c].kind = "Unpack"
    /\ cons[lastCall.c].rp = "LV8"
    /\ ty["L17"] = BoundTo("nil")
    /\ ty["L16"] = BoundTo("string")
    /\ ty["L15"].v = "Local" /\ ty["L15"].blockCount = 2
    /\ Leaves(ty, ty["L15"].domain) = {"number", "nil"}

\* the pass is at a Reduce or ReducePack constraint that it will dispatch
AtReduction == AtDispatch /\ cons[unsolved[i]].kind \in {"Reduce", "ReducePack"}

\* the type or the pack the constraint at hand is about
ReductionRoot ==
    IF cons[unsolved[i]].kind = "Reduce" THEN follow(ty, cons[unsolved[i]].a)
    ELSE followPack(tp, cons[unsolved[i]].rp)

\* the block edges of the constraint c on what the report red waits for
ReportedEdges(red, c) ==
    {<<TyKey(b), c>> : b \in red.blockedTypes} \cup {<<TpKey(b), c>> : b \in red.blockedPacks}

\* C38: whatever the reducer reports, a Reduce or ReducePack dispatch of a
\* normal pass returns true exactly when the report has no blocked type and no
\* blocked pack, and the block edges it adds are those of the constraint on
\* each blocked type and pack of the report; a forced dispatch returns true
\* and adds no edge; the uninhabited families of the report are interned when
\* the dispatch is forced or the report has nothing blocked, and nothing is
\* interned otherwise.  So a step that interns a family is a dispatch that
\* has returned true, and a dispatch that has returned false leaves the
\* constraint blocked.
C38_Reduction ==
    /\ [](AtReduction =>
            \A ch \in ChoicesFor(Cur, unsolved[i]) :
               LET c == unsolved[i]
                   r == dispatchKind(Cur, c, force, ch)
                   finished == ch.red.blockedTypes = {} /\ ch.red.blockedPacks = {}
               IN /\ r.ok = (force \/ finished)
                  /\ r.s.blocked \ blocked =
                        IF force THEN {} ELSE ReportedEdges(ch.red, c) \ blocked
                  /\ ~force => ReportedEdges(ch.red, c) \subseteq r.s.blocked
                  /\ r.s.uninhabitedTypeFamilies =
                        uninhabitedTypeFamilies
                            \cup (IF ch.red.uninhabited /\ (force \/ finished)
                                  THEN {ReductionRoot} ELSE {}))
    /\ [][uninhabitedTypeFamilies' # uninhabitedTypeFamilies
             => AtReduction /\ lastCall'.c = unsolved[i] /\ lastCall'.ok]_vars
    /\ [][AtReduction /\ lastCall'.handled /\ lastCall'.c = unsolved[i] /\ ~lastCall'.ok
             => ~force /\ bc'[unsolved[i]] > 0 /\ unsolved' = unsolved]_vars

\* add<B12, number> has been found uninhabited and is interned, and the
\* reduction of len<B1, ...RP> has then returned false in a normal pass: its
\* constraint waits for B1 and for RP
C38_Witness ==
    /\ lastCall.handled /\ ~lastCall.ok /\ ~lastCall.force
    /\ cons[lastCall.c].kind = "Reduce" /\ cons[lastCall.c].a = "TFI2"
    /\ <<TyKey("B1"), lastCall.c>> \in blocked /\ <<TpKey("RP"), lastCall.c>> \in blocked
    /\ uninhabitedTypeFamilies = {"TFI1"}
    /\ \E c \in solved : cons[c].kind = "Reduce" /\ cons[c].a = "TFI1"

\* the ids of the constraints the step pushes, in the order of their creation
PushedNow == [k \in 1..(Len(cons') - Len(cons)) |-> Len(cons) + k]

\* the places of unsolved from k on
From(q, k) == {q[m] : m \in k..Len(q)}

\* no constraint is twice in unsolved, and none that has been dispatched with
\* success is in it
UnsolvedOnce ==
    /\ \A j, k \in 1..Len(unsolved) : j # k => unsolved[j] # unsolved[k]
    /\ \A k \in 1..Len(unsolved) : unsolved[k] \notin solved

\* solved only grows, by the constraint the pass is at, which was not in it
DispatchedOnce ==
    /\ solved \subseteq solved'
    /\ solved' # solved =>
          /\ AtDispatch /\ lastCall'.ok /\ unsolved[i] \notin solved
          /\ solved' = solved \cup {unsolved[i]}

\* unsolved changes by the erasure of the constraint dispatched with success
\* and by the constraints pushed, which are appended in the order of creation
PushedAtEnd ==
    (unsolved' # unsolved \/ cons' # cons) =>
        /\ AtDispatch /\ lastCall'.c = unsolved[i]
        /\ SubSeq(cons', 1, Len(cons)) = cons
        /\ unsolved' = (IF unsolved[i] \in solved' THEN erase(unsolved, i) ELSE unsolved) \o PushedNow

\* the step ends a pass: the scan starts again with no dispatch counted, or
\* run() returns
PassEnds == pc = "pass" /\ ((i' = 1 /\ passCount' = 0) \/ pc' = "done")

\* while the pass goes on, what is ahead of the scan stays ahead of it: the
\* scan passes over the constraint it is at and over no other
ScanInOrder ==
    (pc = "pass" /\ pc' = "pass" /\ ~PassEnds) =>
        /\ force' = force
        /\ From(unsolved, i + 1) \subseteq From(unsolved', i')
        /\ i' \in {i, i + 1}

\* the pass goes on after a dispatch that has pushed constraints, and these
\* are ahead of the scan
PushedAhead ==
    /\ pc' = "pass" /\ ~PassEnds /\ force' = force
    /\ From(PushedNow, 1) \subseteq From(unsolved', i')

\* a pass ends when the scan is past the end of unsolved
EndsPastTheEnd == i > Len(unsolved)

\* C39, as stated: no constraint is twice in unsolved; a constraint
\* dispatched with success never comes back to unsolved and is dispatched
\* with success once; the constraints pushed are appended at the end of
\* unsolved; and the pass that pushes a constraint visits it: the pass goes on
\* after the push with the new constraints ahead of its scan, the scan leaves
\* out nothing that is ahead of it, and the pass ends, unless an internal
\* error aborts the run, when the scan is past the end (a normal pass) or at a
\* successful dispatch (a force pass).
C39_UnsolvedOnceVisited ==
    /\ []UnsolvedOnce
    /\ [][DispatchedOnce]_vars
    /\ [][PushedAtEnd]_vars
    /\ [][ScanInOrder]_vars
    /\ [][(Len(cons') > Len(cons) /\ pc' # "ice") => PushedAhead]_vars
    /\ [][(PassEnds /\ ~force) => EndsPastTheEnd]_vars

\* C39, amended: the same, but the pass that pushes a constraint visits it
\* when it is a normal pass; a force pass returns at its first successful
\* dispatch, and the constraints that dispatch has pushed are in unsolved
\* when the normal pass that follows starts.
C39_UnsolvedOnceVisitedAmended ==
    /\ []UnsolvedOnce
    /\ [][DispatchedOnce]_vars
    /\ [][PushedAtEnd]_vars
    /\ [][ScanInOrder]_vars
    /\ [][(Len(cons') > Len(cons) /\ pc' # "ice") =>
             IF force /\ lastCall'.ok
             THEN /\ pc' = "pass" /\ ~force' /\ i' = 1 /\ PassEnds
                  /\ From(PushedNow, 1) \subseteq From(unsolved', 1)
             ELSE PushedAhead]_vars
    /\ [][(PassEnds /\ ~force) => EndsPastTheEnd]_vars

\* the first pass has dispatched, with success, a constraint that it has
\* pushed itself
C39_Witness ==
    /\ prevPass = NoPass /\ pc = "pass" /\ ~force
    /\ lastCall.handled /\ lastCall.ok /\ ~lastCall.force
    /\ lastCall.c > Len(cons) - npush
    /\ lastCall.c \in solved /\ \A k \in 1..Len(unsolved) : unsolved[k] # lastCall.c

====
